---- MODULE Spec2Model ----
(***************************************************************************)
(* Balanced-news backend: source catalog and balanced source selection     *)
(* (feed.js), two-tier cache (cache.js) and the /feed handler (index.js).  *)
(*                                                                         *)
(* Coordinates are fixed-point: the integer One stands for 1.0 (one unit   *)
(* is 0.0001), so a coordinate c of the program is the integer c * One.    *)
(* A distance is kept as its square (Math.sqrt is monotone, so ordering    *)
(* and the radius test are the same on squares).                           *)
(***************************************************************************)
EXTENDS Integers, Sequences, FiniteSets, TLC

VARIABLES
    sources,            \* feed.js: let sources (the in-memory catalog)
    MIN_SOURCES_COUNT,  \* feed.js: const MIN_SOURCES_COUNT (read from the environment)
    picked,             \* the last pickSources call: arguments, catalog used, result
    running,            \* the pickSources call on the stack: position and catalog reads
    memoryCache,        \* cache.js: memoryCache.cache, a Map in insertion order
    redis,              \* the durable tier's key space: key -> entry or Absent
    isRedisConnected,   \* cache.js: let isRedisConnected
    client,             \* cache.js: let client, as the truth of (client !== null)
    maxSize,            \* cache.js: memoryCache.maxSize
    now,                \* Date.now(), in seconds
    hist,               \* history: the call completed last and the last successful set
    keyed,              \* two /feed queries and the cache keys computed for them
    reconnectAttempts,  \* cache.js: let reconnectAttempts
    reconnectTimer,     \* cache.js: let reconnectTimer, as whether its timer is pending
    socket,             \* the connection of the client created last, and REDIS_URL's validity
    attempts,           \* reconnection attempts made since the last successful connect
    pending,            \* the outbound call a handler awaits: a durable command or the provider
    lastRequestTime,    \* newsapi.js: let lastRequestTime (followed under SpecRate)
    requests,           \* the getArticlesBySources calls: position and timer of each
    sentAt              \* the provider requests started so far, in order, with their times

vars == <<sources, MIN_SOURCES_COUNT, picked, running, memoryCache, redis, isRedisConnected,
          client, maxSize, now, hist, keyed, reconnectAttempts, reconnectTimer, socket,
          attempts, pending, lastRequestTime, requests, sentAt>>

selVars == <<sources, MIN_SOURCES_COUNT, picked, running>>
cacheVars == <<memoryCache, redis, isRedisConnected, client, maxSize, now,
               hist>>
connVars == <<reconnectAttempts, reconnectTimer, socket, attempts>>
rateVars == <<lastRequestTime, requests, sentAt>>
otherVars == <<keyed, connVars, pending, rateVars>>

(***************************************************************************)
(* Generic helpers                                                         *)
(***************************************************************************)
Range(s) == {s[i] : i \in 1..Len(s)}

RECURSIVE SelectSeqIdx(_, _, _)
\* the subsequence of s at the (ascending) positions of the set idx, from position i on
SelectSeqIdx(s, idx, i) ==
    IF i > Len(s) THEN <<>>
    ELSE IF i \in idx THEN <<s[i]>> \o SelectSeqIdx(s, idx, i + 1)
    ELSE SelectSeqIdx(s, idx, i + 1)

Take(s, n) == IF n <= 0 THEN <<>> ELSE SubSeq(s, 1, IF n < Len(s) THEN n ELSE Len(s))

(***************************************************************************)
(* JavaScript values that may be a number or not (typeof x === 'number')   *)
(***************************************************************************)
Num(v) == [t |-> "number", v |-> v]
NotNum == [t |-> "string", v |-> 0]
NaN == [t |-> "NaN", v |-> 0]
\* a finite number
IsNumber(x) == x.t = "number"
\* typeof x === 'number', which NaN satisfies
TypeofNumber(x) == x.t \in {"number", "NaN"}
\* unary minus
Negate(x) == IF IsNumber(x) THEN Num(-x.v) ELSE x

(***************************************************************************)
(* Bias space                                                              *)
(***************************************************************************)
One == 10000
Tenth == One \div 10
DefaultMinSourcesCount == 4
SearchRadiusUnits == 2       \* MAX_SEARCH_RADIUS = 2.0, in units of One

\* calculateDistance squared, in units of One*One
calculateDistance(ax, ay, bx, by) == (ax - bx) * (ax - bx) + (ay - by) * (ay - by)

\* mutant: the search radius halved
WithinRadiusOne(d2) == d2 <= One * One

WithinRadius(d2) == d2 <= (SearchRadiusUnits * One) * (SearchRadiusUnits * One)

(***************************************************************************)
(* Source catalog: records of the sources file and their validation        *)
(***************************************************************************)
\* A record of the sources file.  id "" and name <<>> stand for a missing
\* (falsy) field, category "" for an absent one; active is "true", "false"
\* or "absent".  A name is its sequence of words.
Raw(id, name, x, y, category, active) ==
    [id |-> id, name |-> name, x |-> x, y |-> y, category |-> category, active |-> active]

getDefaultSources ==
    << [id |-> "bbc-news", name |-> <<"BBC", "News">>, x |-> -2 * Tenth, y |-> 1 * Tenth, category |-> "general", active |-> TRUE],
       [id |-> "cnn", name |-> <<"CNN">>, x |-> -5 * Tenth, y |-> 3 * Tenth, category |-> "general", active |-> TRUE],
       [id |-> "fox-news", name |-> <<"Fox", "News">>, x |-> 7 * Tenth, y |-> -2 * Tenth, category |-> "general", active |-> TRUE],
       [id |-> "reuters", name |-> <<"Reuters">>, x |-> 1 * Tenth, y |-> 4 * Tenth, category |-> "general", active |-> TRUE],
       [id |-> "associated-press", name |-> <<"Associated", "Press">>, x |-> 0 * Tenth, y |-> 2 * Tenth, category |-> "general", active |-> TRUE],
       [id |-> "usa-today", name |-> <<"USA", "Today">>, x |-> 0 * Tenth, y |-> 0 * Tenth, category |-> "general", active |-> TRUE] >>

\* the first filter of validateSources: required fields and coordinate range
ValidRecord(r) ==
    /\ r.id # ""
    /\ r.name # <<>>
    /\ IsNumber(r.x) /\ IsNumber(r.y)
    /\ ~(r.x.v < -One \/ r.x.v > One \/ r.y.v < -One \/ r.y.v > One)

\* the defaults validateSources writes into an accepted record
Normalize(r) ==
    [id |-> r.id, name |-> r.name, x |-> r.x.v, y |-> r.y.v,
     category |-> IF r.category = "" THEN "general" ELSE r.category,
     active |-> r.active # "false"]

\* validateSources: [ok |-> FALSE] is a throw
validateSources(file, minCount) ==
    IF ~file.isArray THEN [ok |-> FALSE, val |-> <<>>]
    ELSE LET data == file.data
             keep == {i \in 1..Len(data) : ValidRecord(data[i]) /\ Normalize(data[i]).active}
             kept == SelectSeqIdx(data, keep, 1)
             validSources == [i \in 1..Len(kept) |-> Normalize(kept[i])]
         IN  IF Len(validSources) < minCount
             THEN [ok |-> FALSE, val |-> <<>>]
             ELSE [ok |-> TRUE, val |-> validSources]

\* mutant: a failed load leaves what could be read instead of the built-in
\* catalog
loadSourcesWithoutFallback(file, minCount) ==
    LET v == validateSources(file, 0)
    IN  IF file.readable /\ v.ok THEN v.val ELSE <<>>

\* loadSources: the catalog it assigns to sources (and returns)
loadSources(file, minCount) ==
    LET v == IF file.readable THEN validateSources(file, minCount)
             ELSE [ok |-> FALSE, val |-> <<>>]
    IN  IF v.ok THEN v.val ELSE getDefaultSources

(***************************************************************************)
(* Source selection                                                        *)
(***************************************************************************)
\* String.prototype.toLowerCase on the words the catalogs of this model use
toLowerCase(w) ==
    CASE w = "BBC" -> "bbc"
      [] w = "News" -> "news"
      [] w = "CNN" -> "cnn"
      [] w = "Fox" -> "fox"
      [] w = "Reuters" -> "reuters"
      [] w = "Associated" -> "associated"
      [] w = "Press" -> "press"
      [] w = "USA" -> "usa"
      [] w = "Today" -> "today"
      [] w = "Media" -> "media"
      [] w = "The" -> "the"
      [] w = "Post" -> "post"
      [] w = "Daily" -> "daily"
      [] OTHER -> w

OrgSuffixes == {"news", "media", "network", "corporation", "inc", "corp", "llc"}
Articles == {"the", "a", "an"}

\* extractOrganization on a name given as its words: one trailing suffix word
\* (preceded by whitespace) is removed, then one leading article (followed by
\* whitespace)
extractOrganization(sourceName) ==
    LET lower == [i \in 1..Len(sourceName) |-> toLowerCase(sourceName[i])]
        noSuffix == IF Len(lower) >= 2 /\ lower[Len(lower)] \in OrgSuffixes
                    THEN SubSeq(lower, 1, Len(lower) - 1) ELSE lower
    IN  IF Len(noSuffix) >= 2 /\ noSuffix[1] \in Articles
        THEN SubSeq(noSuffix, 2, Len(noSuffix)) ELSE noSuffix

diversityKey(source) ==
    <<extractOrganization(source.name),
      IF source.category = "" THEN "general" ELSE source.category>>

RECURSIVE DiversityFirstPass(_, _, _, _)
\* the first loop of ensureSourceDiversity from position i on
DiversityFirstPass(list, i, seen, diverse) ==
    IF i > Len(list) THEN diverse
    ELSE IF diversityKey(list[i]) \notin seen \/ Len(diverse) < 2
         THEN DiversityFirstPass(list, i + 1, seen \cup {diversityKey(list[i])},
                                 Append(diverse, list[i]))
         ELSE DiversityFirstPass(list, i + 1, seen, diverse)

RECURSIVE DiversityFill(_, _, _)
\* the second loop of ensureSourceDiversity from position i on
DiversityFill(list, i, diverse) ==
    IF i > Len(list) \/ Len(diverse) >= Len(list) THEN diverse
    ELSE IF \A j \in 1..Len(diverse) : diverse[j].id # list[i].id
         THEN DiversityFill(list, i + 1, Append(diverse, list[i]))
         ELSE DiversityFill(list, i + 1, diverse)

ensureSourceDiversity(list) ==
    DiversityFill(list, 1, DiversityFirstPass(list, 1, {}, <<>>))

\* mutant: the candidates are left in catalog order
SortByDistanceOmitted(s) == s

RECURSIVE SortByDistance(_)
\* Array.prototype.sort((a, b) => a.distance - b.distance): stable, ascending
SortByDistance(s) ==
    IF Len(s) = 0 THEN <<>>
    ELSE LET m == CHOOSE i \in 1..Len(s) :
                      /\ \A j \in 1..Len(s) : s[i].distance <= s[j].distance
                      /\ \A j \in 1..(i - 1) : s[j].distance > s[i].distance
         IN  <<s[m]>> \o SortByDistance(SelectSeqIdx(s, (1..Len(s)) \ {m}, 1))

\* mutant: the ids already chosen are not excluded from the search
findClosestSourcesNoExclude(srcs, x, y, n, excludeIds, categoryFilter) ==
    IF ~(IsNumber(x) /\ IsNumber(y)) THEN <<>>
    ELSE LET keep == {i \in 1..Len(srcs) :
                        /\ (categoryFilter = "" \/ srcs[i].category = categoryFilter)
                        /\ srcs[i].active}
             cand == SelectSeqIdx(srcs, keep, 1)
             withDist == [i \in 1..Len(cand) |->
                            [id |-> cand[i].id, name |-> cand[i].name,
                             x |-> cand[i].x, y |-> cand[i].y,
                             category |-> cand[i].category,
                             distance |-> calculateDistance(x.v, y.v, cand[i].x, cand[i].y)]]
             near == SelectSeqIdx(withDist,
                                  {i \in 1..Len(withDist) : WithinRadius(withDist[i].distance)}, 1)
         IN  Take(SortByDistance(near), n)

\* findClosestSources over the catalog srcs; categoryFilter "" is null.
\* Coordinates that are no numbers throw inside the try and the catch returns
\* []; the distance to a NaN coordinate is NaN, which fails the radius test.
findClosestSources(srcs, x, y, n, excludeIds, categoryFilter) ==
    IF ~(TypeofNumber(x) /\ TypeofNumber(y)) THEN <<>>
    ELSE LET keep == {i \in 1..Len(srcs) :
                        /\ srcs[i].id \notin excludeIds
                        /\ (categoryFilter = "" \/ srcs[i].category = categoryFilter)
                        /\ srcs[i].active}
             cand == SelectSeqIdx(srcs, keep, 1)
             withDist == [i \in 1..Len(cand) |->
                            [id |-> cand[i].id, name |-> cand[i].name,
                             x |-> cand[i].x, y |-> cand[i].y,
                             category |-> cand[i].category,
                             distance |-> calculateDistance(x.v, y.v, cand[i].x, cand[i].y)]]
             near == SelectSeqIdx(withDist,
                                  {i \in 1..Len(withDist) :
                                      /\ IsNumber(x) /\ IsNumber(y)
                                      /\ WithinRadius(withDist[i].distance)}, 1)
         IN  Take(SortByDistance(near), n)

Tag(list, side, isFallback) ==
    [i \in 1..Len(list) |->
        [id |-> list[i].id, name |-> list[i].name, side |-> side,
         x |-> list[i].x, y |-> list[i].y, distance |-> list[i].distance,
         category |-> list[i].category, isFallback |-> isFallback,
         isEmergencyFallback |-> FALSE]]

\* mutant: the catch returns an empty list
getEmergencyFallbackSourcesEmpty == <<>>

getEmergencyFallbackSources ==
    LET fallback == Take(getDefaultSources, 4)
    IN  [i \in 1..Len(fallback) |->
            [id |-> fallback[i].id, name |-> fallback[i].name,
             side |-> IF i - 1 < 2 THEN "friendly" ELSE "opposing",
             x |-> fallback[i].x, y |-> fallback[i].y, distance |-> 0,
             category |-> fallback[i].category, isFallback |-> TRUE,
             isEmergencyFallback |-> TRUE]]

\* the options argument; isNull stands for a call pickSources(x, y, null),
\* whose destructuring throws inside the try
DefaultOptions ==
    [friendlyCount |-> 2, opposingCount |-> 2, categoryFilter |-> "",
     ensureDiversity |-> TRUE, fallbackStrategy |-> "fill_remaining",
     isNull |-> FALSE]

\* mutant: the ids returned by the call before stay excluded
pickSourcesKeepingExclusions(srcs, x, y, options) ==
    Tag(findClosestSources(srcs, x, y, options.friendlyCount + options.opposingCount,
                           {picked.result[i].id : i \in 1..Len(picked.result)},
                           options.categoryFilter),
        "friendly", FALSE)

\* pickSources from the combination of the two searches on: the
\* fill_remaining strategy over the catalog srcs, the diversity pass and the
\* final slice
pickSourcesFrom(srcs, friendlySources, opposingSources, options) ==
    LET combined == Tag(friendlySources, "friendly", FALSE)
                    \o Tag(opposingSources, "opposing", FALSE)
        totalRequested == options.friendlyCount + options.opposingCount
        allUsedIds == {combined[i].id : i \in 1..Len(combined)}
        fallbackSources ==
            findClosestSources(srcs, Num(0), Num(0), totalRequested - Len(combined),
                               allUsedIds, options.categoryFilter)
        allSources ==
            IF Len(combined) < totalRequested /\ options.fallbackStrategy = "fill_remaining"
            THEN combined \o Tag(fallbackSources, "neutral", TRUE)
            ELSE combined
        diverse == IF options.ensureDiversity /\ Len(allSources) > 1
                   THEN ensureSourceDiversity(allSources) ELSE allSources
    IN  Take(diverse, totalRequested)

\* pickSources over the catalog srcs (the catalog after the "ensure sources
\* are loaded" step); every throw inside the try ends in the catch
pickSources(srcs, x, y, options) ==
    IF options.isNull \/ ~(TypeofNumber(x) /\ TypeofNumber(y))
    THEN getEmergencyFallbackSources
    ELSE LET friendlySources ==
                 findClosestSources(srcs, x, y, options.friendlyCount, {}, options.categoryFilter)
             usedSourceIds == {friendlySources[i].id : i \in 1..Len(friendlySources)}
             opposingSources ==
                 findClosestSources(srcs, Negate(x), Negate(y), options.opposingCount,
                                    usedSourceIds, options.categoryFilter)
         IN  pickSourcesFrom(srcs, friendlySources, opposingSources, options)

(***************************************************************************)
(* Inputs of the selection model                                           *)
(***************************************************************************)
MaxFileLen == 4

\* the records a sources file of this model is made of, in file order
RawPool ==
    << Raw("a", <<"Fox", "News">>, Num(7 * Tenth), Num(-2 * Tenth), "", "absent"),
       Raw("b", <<"Fox", "Media">>, Num(-7 * Tenth), Num(2 * Tenth), "general", "true"),
       Raw("c", <<"CNN">>, Num(-5 * Tenth), Num(3 * Tenth), "", "absent"),
       Raw("d", <<"The", "Post">>, Num(0 * Tenth), Num(0 * Tenth), "", "absent"),
       Raw("a", <<"Daily">>, Num(5 * Tenth), Num(0 * Tenth), "", "absent"),
       Raw("e", <<"Reuters">>, Num(10 * Tenth), Num(10 * Tenth), "tech", "absent"),
       Raw("f", <<"USA", "Today">>, Num(0 * Tenth), Num(2 * Tenth), "", "false"),
       Raw("g", <<"Press">>, Num(12 * Tenth), NotNum, "", "absent") >>

\* what fs.readFileSync + JSON.parse can deliver: an array of records, JSON
\* that is no array, or a read/parse error
Files ==
    {[readable |-> TRUE, isArray |-> TRUE, data |-> SelectSeqIdx(RawPool, S, 1)] :
        S \in {T \in SUBSET (1..Len(RawPool)) : Cardinality(T) <= MaxFileLen}}
    \cup {[readable |-> TRUE, isArray |-> FALSE, data |-> <<>>],
          [readable |-> FALSE, isArray |-> FALSE, data |-> <<>>]}

MinSourcesChoices == {2, DefaultMinSourcesCount}

\* parseInt(process.env.MIN_SOURCES_COUNT) || 4 keeps a negative setting (it
\* is truthy), and then a file without any usable record passes the check
NegativeMinimum == -1

\* sources files with at most one usable record
EmptyFiles ==
    {[readable |-> TRUE, isArray |-> TRUE, data |-> d] :
        d \in {<<>>, <<RawPool[4]>>, <<RawPool[7]>>, <<RawPool[8]>>}}
    \cup {[readable |-> FALSE, isArray |-> FALSE, data |-> <<>>]}

\* the sources files read under the configured minimum m
FilesFor(m) == IF m = NegativeMinimum THEN EmptyFiles ELSE Files

BiasX == {-One, -7 * Tenth, 0, 7 * Tenth, One}
BiasY == {-One, -2 * Tenth, 0, 2 * Tenth, One}
BiasInputs == {<<Num(x), Num(y)>> : x \in BiasX, y \in BiasY}
              \cup {<<NotNum, Num(0)>>, <<Num(0), NotNum>>, <<NaN, Num(0)>>}

PickOptions == {DefaultOptions, [DefaultOptions EXCEPT !.ensureDiversity = FALSE]}

\* a call with a category filter, and a call whose options are null
CategoryOptions == [DefaultOptions EXCEPT !.categoryFilter = "tech"]
NullOptions == [DefaultOptions EXCEPT !.isNull = TRUE]

\* a call that asks for one friendly and one opposing source
SmallOptions == [DefaultOptions EXCEPT !.friendlyCount = 1, !.opposingCount = 1]

\* the arguments <<x, y, options>> of the calls
PickInputs ==
    {<<b[1], b[2], o>> : b \in BiasInputs, o \in PickOptions}
        \cup {<<Num(0), Num(0), CategoryOptions>>, <<Num(-One), Num(-One), CategoryOptions>>,
              <<Num(0), Num(0), NullOptions>>,
              <<Num(7 * Tenth), Num(-2 * Tenth), SmallOptions>>,
              <<NotNum, Num(0), SmallOptions>>}

\* the catalogs a load can leave, by configured minimum
LoadedCatalogs ==
    [m \in MinSourcesChoices \cup {NegativeMinimum} |->
        {loadSources(f, m) : f \in FilesFor(m)}]

\* running: the position of the pickSources call on the stack ("idle" when
\* there is none), its arguments, the results of its searches and the
\* catalogs its steps have read; done marks a call that has returned
NoRun == [pos |-> "idle", x |-> Num(0), y |-> Num(0), friendly |-> <<>>,
          opposing |-> <<>>, reads |-> <<>>, done |-> FALSE]

\* mutant: a reload may run in the middle of a call
PreemptedAnywhere(pos) == TRUE

\* pickSources has no await: callbacks such as the reload run only between
\* calls
RunToCompletion(pos) == pos = "idle"

\* picked: the last call on the current catalog; repeat tells that the call
\* before it had the same arguments and prevResult is what that call returned
NoPick == [called |-> FALSE, x |-> Num(0), y |-> Num(0), options |-> DefaultOptions,
           catalog |-> <<>>, result |-> <<>>, repeat |-> FALSE, prevResult |-> <<>>]

(***************************************************************************)
(* Initial state                                                           *)
(***************************************************************************)
SelInit ==
    /\ MIN_SOURCES_COUNT \in MinSourcesChoices
    /\ sources \in LoadedCatalogs[MIN_SOURCES_COUNT]
    /\ picked = NoPick
    /\ running = NoRun

(***************************************************************************)
(* Selection actions                                                       *)
(***************************************************************************)
\* reloadSources(): re-reads the sources file; picked is the last call on the
\* current catalog, so a reload forgets it
ReloadSources ==
    /\ RunToCompletion(running.pos)
    /\ sources' \in LoadedCatalogs[MIN_SOURCES_COUNT]
    /\ picked' = NoPick
    /\ running' = IF running.pos = "idle" THEN NoRun ELSE running
    /\ UNCHANGED <<MIN_SOURCES_COUNT, cacheVars, otherVars>>

\* a call pickSources(x, y, options); the sources file is read only when the
\* catalog is empty
PickSourcesCall ==
    /\ running.pos = "idle"
    /\ \E a \in PickInputs :
       \E loaded \in IF ~a[3].isNull /\ TypeofNumber(a[1]) /\ TypeofNumber(a[2])
                         /\ Len(sources) = 0
                      THEN LoadedCatalogs[MIN_SOURCES_COUNT] ELSE {sources} :
       \E again \in {/\ picked.called /\ picked.catalog = loaded
                      /\ picked.x = a[1] /\ picked.y = a[2] /\ picked.options = a[3]} :
          /\ sources' = loaded
          /\ picked' = [called |-> TRUE, x |-> a[1], y |-> a[2], options |-> a[3],
                        catalog |-> loaded,
                        result |-> pickSources(loaded, a[1], a[2], a[3]),
                        repeat |-> again,
                        prevResult |-> IF again THEN picked.result ELSE <<>>]
    /\ UNCHANGED <<MIN_SOURCES_COUNT, running, cacheVars, otherVars>>

\* the same call, statement by statement: the entry with the "ensure sources
\* are loaded" step, the friendly search, the opposing search, and the rest
PickStart(biases) ==
    /\ running.pos = "idle"
    /\ \E b \in biases :
          running' = [NoRun EXCEPT !.pos = "friendly", !.x = b[1], !.y = b[2]]
    /\ sources' \in IF Len(sources) = 0 THEN LoadedCatalogs[MIN_SOURCES_COUNT] ELSE {sources}
    /\ picked' = NoPick
    /\ UNCHANGED <<MIN_SOURCES_COUNT, cacheVars, otherVars>>

PickFriendly ==
    /\ running.pos = "friendly"
    /\ running' = [running EXCEPT
                      !.pos = "opposing",
                      !.friendly = findClosestSources(sources, running.x, running.y,
                                                      DefaultOptions.friendlyCount, {},
                                                      DefaultOptions.categoryFilter),
                      !.reads = Append(@, sources)]
    /\ UNCHANGED <<sources, MIN_SOURCES_COUNT, picked, cacheVars, otherVars>>

PickOpposing ==
    /\ running.pos = "opposing"
    /\ running' = [running EXCEPT
                      !.pos = "fallback",
                      !.opposing = findClosestSources(sources, Negate(running.x),
                                       Negate(running.y), DefaultOptions.opposingCount,
                                       {running.friendly[i].id : i \in 1..Len(running.friendly)},
                                       DefaultOptions.categoryFilter),
                      !.reads = Append(@, sources)]
    /\ UNCHANGED <<sources, MIN_SOURCES_COUNT, picked, cacheVars, otherVars>>

PickFinish ==
    /\ running.pos = "fallback"
    /\ running' = [running EXCEPT !.pos = "idle", !.done = TRUE,
                                  !.reads = Append(@, sources)]
    /\ picked' = [NoPick EXCEPT
                     !.called = TRUE, !.x = running.x, !.y = running.y,
                     !.catalog = sources,
                     !.result = pickSourcesFrom(sources, running.friendly,
                                                running.opposing, DefaultOptions)]
    /\ UNCHANGED <<sources, MIN_SOURCES_COUNT, cacheVars, otherVars>>

(***************************************************************************)
(* Fast tier: class MemoryCache.  The Map is a sequence of entries in the  *)
(* Map's iteration (insertion) order.  Time is in seconds.                 *)
(***************************************************************************)
NullValue == "<null>"    \* the value null that a lookup returns for a miss
NoExpiry == -1           \* item.expires === null

Entry(key, value, expires) == [key |-> key, value |-> value, expires |-> expires]

IndexOf(cache, key) ==
    IF \E i \in 1..Len(cache) : cache[i].key = key
    THEN CHOOSE i \in 1..Len(cache) : cache[i].key = key
    ELSE 0

RemoveAt(cache, i) == SelectSeqIdx(cache, (1..Len(cache)) \ {i}, 1)

\* item.expires && item.expires < now
ExpiredAtGet(item, t) == item.expires # NoExpiry /\ item.expires # 0 /\ item.expires < t

\* item.expires && item.expires <= now
ExpiredAtCleanup(item, t) == item.expires # NoExpiry /\ item.expires # 0 /\ item.expires <= t

\* MemoryCache.get: the value returned and the Map afterwards
MemoryCacheGet(cache, key, t) ==
    LET i == IndexOf(cache, key)
    IN  IF i = 0 THEN [value |-> NullValue, cache |-> cache]
        ELSE IF ExpiredAtGet(cache[i], t)
             THEN [value |-> NullValue, cache |-> RemoveAt(cache, i)]
             ELSE [value |-> cache[i].value, cache |-> Append(RemoveAt(cache, i), cache[i])]

\* mutant: set never removes the oldest entry
MemoryCacheSetNoEviction(cache, size, key, value, ttlSec, t) ==
    LET expires == IF ttlSec # 0 THEN t + ttlSec ELSE NoExpiry
        i == IndexOf(cache, key)
    IN  IF i = 0 THEN Append(cache, Entry(key, value, expires))
        ELSE [cache EXCEPT ![i] = Entry(key, value, expires)]

\* MemoryCache.set: the Map afterwards.  Map.set on a key that is present
\* keeps the key's position.
MemoryCacheSet(cache, size, key, value, ttlSec, t) ==
    LET room == IF Len(cache) >= size /\ Len(cache) > 0 THEN Tail(cache) ELSE cache
        expires == IF ttlSec # 0 THEN t + ttlSec ELSE NoExpiry
        i == IndexOf(room, key)
    IN  IF i = 0 THEN Append(room, Entry(key, value, expires))
        ELSE [room EXCEPT ![i] = Entry(key, value, expires)]

\* MemoryCache.delete
MemoryCacheDelete(cache, key) ==
    SelectSeqIdx(cache, {i \in 1..Len(cache) : cache[i].key # key}, 1)

\* MemoryCache.cleanup
MemoryCacheCleanup(cache, t) ==
    SelectSeqIdx(cache, {i \in 1..Len(cache) : ~ExpiredAtCleanup(cache[i], t)}, 1)

MemoryKeys(cache) == {cache[i].key : i \in 1..Len(cache)}

(***************************************************************************)
(* Durable tier: the Redis key space as a set of entries, one per key.     *)
(* A command either answers or throws (network error, timeout).            *)
(***************************************************************************)
RedisLive(db, t) == {e \in db : ~(e.expires # NoExpiry /\ e.expires < t)}

\* client.get(key): the stored string or null
RedisGet(db, key, t) ==
    IF \E e \in RedisLive(db, t) : e.key = key
    THEN (CHOOSE e \in RedisLive(db, t) : e.key = key).value
    ELSE NullValue

\* client.set(key, value, { EX: ttlSec })
RedisSet(db, key, value, ttlSec, t) ==
    {e \in db : e.key # key} \cup {Entry(key, value, t + ttlSec)}

\* client.del(keys)
RedisDel(db, keys) == {e \in db : e.key \notin keys}

\* SET ... EX 0 is rejected by the server ("invalid expire time")
RedisSetOutcomes(ttlSec, outs) == IF ttlSec = 0 THEN {"throw"} ELSE outs

RECURSIVE GlobMatch(_, _)
\* client.keys(pattern): Redis glob matching of a whole key (* and ?)
GlobMatch(p, k) ==
    IF Len(p) = 0 THEN Len(k) = 0
    ELSE IF SubSeq(p, 1, 1) = "*"
         THEN \/ GlobMatch(SubSeq(p, 2, Len(p)), k)
              \/ Len(k) > 0 /\ GlobMatch(p, SubSeq(k, 2, Len(k)))
         ELSE /\ Len(k) > 0
              /\ SubSeq(p, 1, 1) = "?" \/ SubSeq(p, 1, 1) = SubSeq(k, 1, 1)
              /\ GlobMatch(SubSeq(p, 2, Len(p)), SubSeq(k, 2, Len(k)))

RECURSIVE RegexMatchHere(_, _)
\* new RegExp(pattern.replace(/\*/g, '.*')) matched at the start of k, for
\* patterns made of literal characters, "." and "*"
RegexMatchHere(p, k) ==
    IF Len(p) = 0 THEN TRUE
    ELSE IF SubSeq(p, 1, 1) = "*"
         THEN \/ RegexMatchHere(SubSeq(p, 2, Len(p)), k)
              \/ Len(k) > 0 /\ RegexMatchHere(p, SubSeq(k, 2, Len(k)))
         ELSE /\ Len(k) > 0
              /\ SubSeq(p, 1, 1) = "." \/ SubSeq(p, 1, 1) = SubSeq(k, 1, 1)
              /\ RegexMatchHere(SubSeq(p, 2, Len(p)), SubSeq(k, 2, Len(k)))

\* regex.test(key): the expression is not anchored
RegexTest(p, k) == \E i \in 1..(Len(k) + 1) : RegexMatchHere(p, SubSeq(k, i, Len(k)))

(***************************************************************************)
(* Cache operations.  Each takes the tiers (mem, db), the health flag conn *)
(* with the truth of "client" already folded in (isRedisConnected &&       *)
(* client), the time t and the outcome out of the durable command it may   *)
(* issue ("ok" or "throw"), and yields its result and the state it leaves. *)
(***************************************************************************)
Undefined == "<undefined>"

\* mutant: a failed durable read is reported as a miss
getCacheWithoutFallback(mem, db, conn, key, t, out) ==
    IF conn
    THEN [value |-> IF out = "ok" THEN RedisGet(db, key, t) ELSE NullValue, mem |-> mem,
          conn |-> out = "ok", memHit |-> FALSE]
    ELSE LET m == MemoryCacheGet(mem, key, t)
         IN  [value |-> m.value, mem |-> m.cache, conn |-> conn,
              memHit |-> m.value # NullValue]

\* mutant: a value read from the durable tier is copied into the fast tier
getCachePromoting(mem, db, conn, key, t, out) ==
    LET fromRedis == RedisGet(db, key, t)
        m == MemoryCacheGet(mem, key, t)
    IN  IF conn /\ out = "ok" /\ fromRedis # NullValue
        THEN [value |-> fromRedis,
              mem |-> MemoryCacheSetNoEviction(mem, 0, key, fromRedis, 0, t),
              conn |-> conn, memHit |-> FALSE]
        ELSE [value |-> m.value, mem |-> m.cache,
              conn |-> IF conn /\ out = "throw" THEN FALSE ELSE conn,
              memHit |-> m.value # NullValue]

\* mutant: a key the durable tier does not hold is reported as a miss
getCacheMissWhenAbsent(mem, db, conn, key, t, out) ==
    LET fromRedis == RedisGet(db, key, t)
        m == MemoryCacheGet(mem, key, t)
    IN  IF conn /\ out = "ok"
        THEN [value |-> fromRedis, mem |-> mem, conn |-> conn, memHit |-> FALSE]
        ELSE [value |-> m.value, mem |-> m.cache,
              conn |-> IF conn /\ out = "throw" THEN FALSE ELSE conn,
              memHit |-> m.value # NullValue]

getCache(mem, db, conn, key, t, out) ==
    LET fromRedis == RedisGet(db, key, t)
        m == MemoryCacheGet(mem, key, t)
    IN  IF conn /\ out = "ok" /\ fromRedis # NullValue
        THEN [value |-> fromRedis, mem |-> mem, conn |-> conn,
              memHit |-> FALSE]
        ELSE [value |-> m.value, mem |-> m.cache,
              conn |-> IF conn /\ out = "throw" THEN FALSE ELSE conn,
              memHit |-> m.value # NullValue]

\* mutant: a failed durable write fails the call
setCacheFailsWithRedis(mem, db, conn, size, key, value, ttlSec, t, out) ==
    IF key = "" \/ value = Undefined \/ (conn /\ out = "throw")
    THEN [result |-> FALSE, mem |-> mem, db |-> db,
          conn |-> IF conn /\ out = "throw" THEN FALSE ELSE conn]
    ELSE [result |-> TRUE, mem |-> MemoryCacheSet(mem, size, key, value, ttlSec, t),
          db |-> IF conn THEN RedisSet(db, key, value, ttlSec, t) ELSE db,
          conn |-> conn]

setCache(mem, db, conn, size, key, value, ttlSec, t, out) ==
    IF key = "" \/ value = Undefined
    THEN [result |-> FALSE, mem |-> mem, db |-> db, conn |-> conn]
    ELSE IF conn /\ out = "ok"
         THEN [result |-> TRUE, mem |-> MemoryCacheSet(mem, size, key, value, ttlSec, t),
               db |-> RedisSet(db, key, value, ttlSec, t), conn |-> conn]
         ELSE [result |-> TRUE, mem |-> MemoryCacheSet(mem, size, key, value, ttlSec, t),
               db |-> db, conn |-> IF conn /\ out = "throw" THEN FALSE ELSE conn]

deleteCache(mem, db, conn, key, t, out) ==
    LET inRedis == conn /\ out = "ok" /\ RedisGet(db, key, t) # NullValue
    IN  [deleted |-> inRedis \/ key \in MemoryKeys(mem),
         mem |-> MemoryCacheDelete(mem, key),
         db |-> IF conn /\ out = "ok" THEN RedisDel(db, {key}) ELSE db,
         conn |-> conn]

\* clearCache(pattern); pattern "" is a call without a pattern
clearCache(mem, db, conn, pattern, t, out) ==
    LET redisKeys == {e.key : e \in {d \in RedisLive(db, t) : GlobMatch(pattern, d.key)}}
        useRedis == conn /\ pattern # "" /\ out = "ok"
        memHit == {i \in 1..Len(mem) : RegexTest(pattern, mem[i].key)}
    IN  [cleared |-> (IF useRedis THEN Cardinality(redisKeys) ELSE 0)
                     + (IF pattern # "" THEN Cardinality(memHit) ELSE Len(mem)),
         mem |-> IF pattern # "" THEN SelectSeqIdx(mem, (1..Len(mem)) \ memHit, 1) ELSE <<>>,
         db |-> IF useRedis THEN RedisDel(db, redisKeys) ELSE db,
         conn |-> conn]

(***************************************************************************)
(* JSON.  A JavaScript value is tagged with its type; an object is the     *)
(* sequence of its <<name, value>> properties in insertion order, an array *)
(* a sequence; the JSON text is a string.                                  *)
(***************************************************************************)
JsString(str) == [t |-> "string", v |-> str]
JsBoolean(b) == [t |-> "boolean", v |-> IF b THEN "true" ELSE "false"]
JsNull == [t |-> "null", v |-> "null"]
JsUndefined == [t |-> "undefined", v |-> ""]

Quote(str) == "\"" \o str \o "\""

RECURSIVE Join(_, _)
Join(parts, sep) ==
    IF Len(parts) = 0 THEN ""
    ELSE IF Len(parts) = 1 THEN parts[1]
    ELSE parts[1] \o sep \o Join(Tail(parts), sep)

\* JSON.stringify of an object: a property whose value is undefined is left out
StringifyObject(obj) ==
    LET defined == SelectSeq(obj, LAMBDA prop : prop[2].t # "undefined")
    IN  "{" \o Join([i \in 1..Len(defined) |->
                        Quote(defined[i][1]) \o ":" \o
                        (IF defined[i][2].t = "string" THEN Quote(defined[i][2].v)
                         ELSE defined[i][2].v)], ",") \o "}"

\* JSON.stringify of an array of objects
JSONstringify(list) ==
    "[" \o Join([i \in 1..Len(list) |-> StringifyObject(list[i])], ",") \o "]"

CharAt(str, i) == IF i >= 1 /\ i <= Len(str) THEN SubSeq(str, i, i) ELSE ""

RECURSIVE IndexOfChar(_, _, _)
\* the first position from i on where str has the character c
IndexOfChar(str, c, i) ==
    IF i > Len(str) \/ SubSeq(str, i, i) = c THEN i ELSE IndexOfChar(str, c, i + 1)

\* the value whose text starts at position i, and the position after it
ParseValue(str, i) ==
    IF CharAt(str, i) = "\""
    THEN LET j == IndexOfChar(str, "\"", i + 1)
         IN  [value |-> JsString(SubSeq(str, i + 1, j - 1)), next |-> j + 1]
    ELSE IF CharAt(str, i) = "t" THEN [value |-> JsBoolean(TRUE), next |-> i + 4]
    ELSE IF CharAt(str, i) = "f" THEN [value |-> JsBoolean(FALSE), next |-> i + 5]
    ELSE [value |-> JsNull, next |-> i + 4]

RECURSIVE ParseProperties(_, _, _)
\* the properties of an object from position i on, appended to acc
ParseProperties(str, i, acc) ==
    IF i > Len(str) \/ CharAt(str, i) = "}" THEN [value |-> acc, next |-> i + 1]
    ELSE LET k == IndexOfChar(str, "\"", i + 1)
             val == ParseValue(str, k + 2)
             nxt == IF CharAt(str, val.next) = "," THEN val.next + 1 ELSE val.next
         IN  ParseProperties(str, nxt, Append(acc, <<SubSeq(str, i + 1, k - 1), val.value>>))

RECURSIVE ParseElements(_, _, _)
\* the objects of an array from position i on, appended to acc
ParseElements(str, i, acc) ==
    IF i > Len(str) \/ CharAt(str, i) = "]" THEN acc
    ELSE LET obj == ParseProperties(str, i + 1, <<>>)
             nxt == IF CharAt(str, obj.next) = "," THEN obj.next + 1 ELSE obj.next
         IN  ParseElements(str, nxt, Append(acc, obj.value))

\* JSON.parse of the text of an array of flat objects
JSONparse(str) == ParseElements(str, 2, <<>>)

\* JSON.parse throws a SyntaxError on any other text
IsJSONArray(str) == CharAt(str, 1) = "[" /\ CharAt(str, Len(str)) = "]"

(***************************************************************************)
(* The article provider (newsapi.js)                                       *)
(***************************************************************************)
\* an article of the provider's response with the fields the feed reads;
\* "" is a missing field
RawArticle(url, title, sourceId, publishedAt) ==
    [url |-> url, title |-> title, source |-> [id |-> sourceId], publishedAt |-> publishedAt]

validateAndFilterArticles(articles) ==
    SelectSeq(articles, LAMBDA a : /\ a.title # "" /\ a.url # ""
                                   /\ a.source.id # ""
                                   /\ a.title # "[Removed]")

\* mutant: a provider failure yields an empty list of articles
handleNewsApiErrorSwallowed(response) == [thrown |-> FALSE, articles |-> <<>>]

\* handleNewsApiError always throws
handleNewsApiError(response) == [thrown |-> TRUE, articles |-> <<>>]

\* getArticlesBySources(sourceIds); response is what the HTTP request does
getArticlesBySources(sourceIds, response) ==
    IF Len(sourceIds) = 0 THEN [thrown |-> FALSE, articles |-> <<>>]
    ELSE IF response.thrown THEN handleNewsApiError(response)
    ELSE [thrown |-> FALSE, articles |-> validateAndFilterArticles(response.articles)]

(***************************************************************************)
(* The /feed handler (index.js)                                            *)
(***************************************************************************)
CACHE_TTL_FEED == 1800

Pad3(k) == IF k < 10 THEN "00" \o ToString(k)
           ELSE IF k < 100 THEN "0" \o ToString(k) ELSE ToString(k)

\* v.toFixed(3) for the coordinate v, round half up on the magnitude
toFixed3(v) ==
    LET mag == IF v < 0 THEN -v ELSE v
        n == (mag * 1000 + One \div 2) \div One
    IN  (IF v < 0 THEN "-" ELSE "") \o ToString(n \div 1000) \o "." \o Pad3(n % 1000)

\* validateFeedQuery: x and y are required numbers in [-1, 1]
validateFeedQuery(q) ==
    /\ IsNumber(q.x) /\ q.x.v >= -One /\ q.x.v <= One
    /\ IsNumber(q.y) /\ q.y.v >= -One /\ q.y.v <= One

\* `feed:${x.toFixed(3)}:${y.toFixed(3)}`
feedCacheKey(q) == "feed:" \o toFixed3(q.x.v) \o ":" \o toFixed3(q.y.v)

\* mutant: a source without an article of its own gets none
findArticleOwnOnly(articles, usedArticles, srcId) ==
    LET own == {j \in 1..Len(articles) : /\ articles[j].url \notin usedArticles
                                          /\ articles[j].source.id = srcId}
    IN  IF own = {} THEN 0 ELSE CHOOSE j \in own : \A k \in own : j <= k

\* the two articles.find of the loop: the position of the first unused
\* article of the source srcId, else of the first unused article, else 0
findArticle(articles, usedArticles, srcId) ==
    LET unused == {j \in 1..Len(articles) : articles[j].url \notin usedArticles}
        own == {j \in unused : articles[j].source.id = srcId}
        from == IF own # {} THEN own ELSE unused
    IN  IF from = {} THEN 0 ELSE CHOOSE j \in from : \A k \in from : j <= k

\* mutant: the substitute article is not marked
FallbackMarkOmitted(isOwn) == <<>>

\* the isFallback property of a card built from a substitute article
FallbackMark(isOwn) ==
    IF isOwn THEN <<>> ELSE << <<"isFallback", JsBoolean(TRUE)>> >>

RECURSIVE BuildCards(_, _, _, _, _)
\* the card-building loop from the i-th selected source on
BuildCards(srcs, articles, i, usedArticles, cards) ==
    IF i > Len(srcs) THEN cards
    ELSE LET src == srcs[i]
             j == findArticle(articles, usedArticles, src.id)
         IN  IF j = 0 THEN BuildCards(srcs, articles, i + 1, usedArticles, cards)
             ELSE LET art == articles[j]
                      card == << <<"articleId", JsString(art.url)>>,
                                 <<"title", JsString(art.title)>>,
                                 <<"sourceId", JsString(src.id)>>,
                                 <<"url", JsString(art.url)>>,
                                 <<"publishedAt", art.publishedAt>>,
                                 <<"side", JsString(src.side)>> >>
                               \o FallbackMark(art.source.id = src.id)
                  IN  BuildCards(srcs, articles, i + 1, usedArticles \cup {art.url},
                                 Append(cards, card))

\* mutant: the card list is stored whatever its length
ShouldCacheAlways(cards) == TRUE

\* if (cards.length > 0)
ShouldCache(cards) == Len(cards) > 0

\* mutant: the handler goes on with an empty selection
NoSourcesIgnored(selected) == FALSE

\* if (sources.length === 0)
NoSources(selected) == Len(selected) = 0

\* what a request leaves: its response, the cache key, whether the provider
\* was called ("none", "ok", "throw"), whether the cards were stored, and
\* the tiers and the health flag
Response(status, body, key, provider, stored, memHit, mem, db, conn) ==
    [status |-> status, body |-> body, key |-> key, provider |-> provider,
     stored |-> stored, memHit |-> memHit, mem |-> mem, db |-> db, conn |-> conn]

\* app.get('/feed') for the query q = [x, y, refresh]; getOut and setOut are
\* the outcomes of the durable commands of getCache and setCache, selected
\* is what pickSources(x, y) returns and fetched what getArticlesBySources
\* returns for the selected ids
feedHandler(mem, db, conn, size, q, t, getOut, selected, fetched, setOut) ==
    IF ~validateFeedQuery(q)
    THEN Response(400, "Invalid request parameters", "", "none", FALSE, FALSE,
                  mem, db, conn)
    ELSE
    LET cacheKey == feedCacheKey(q)
        g == IF q.refresh
             THEN [value |-> NullValue, mem |-> mem, conn |-> conn, memHit |-> FALSE]
             ELSE getCache(mem, db, conn, cacheKey, t, getOut)
        cards == BuildCards(selected, fetched.articles, 1, {}, <<>>)
        w == setCache(g.mem, db, g.conn, size, cacheKey, JSONstringify(cards),
                      CACHE_TTL_FEED, t, setOut)
    IN  IF g.value # NullValue /\ g.value # "" /\ ~IsJSONArray(g.value)
        THEN Response(500, "Failed to fetch articles", cacheKey, "none", FALSE,
                      g.memHit, g.mem, db, g.conn)
        ELSE IF g.value # NullValue /\ g.value # ""
        THEN Response(200, JSONstringify(JSONparse(g.value)), cacheKey, "none", FALSE,
                      g.memHit, g.mem, db, g.conn)
        ELSE IF NoSources(selected)
        THEN Response(200, JSONstringify(<<>>), cacheKey, "none", FALSE,
                      g.memHit, g.mem, db, g.conn)
        ELSE IF fetched.thrown
        THEN Response(500, "Failed to fetch articles", cacheKey, "throw", FALSE,
                      g.memHit, g.mem, db, g.conn)
        ELSE IF ShouldCache(cards)
        THEN Response(200, JSONstringify(cards), cacheKey, "ok", TRUE,
                      g.memHit, w.mem, w.db, w.conn)
        ELSE Response(200, JSONstringify(cards), cacheKey, "ok", FALSE,
                      g.memHit, g.mem, db, g.conn)

(***************************************************************************)
(* History                                                                 *)
(***************************************************************************)
\* a /feed request: its cache key, refresh flag, response status and body,
\* what the provider did ("none" if not asked, "ok", "throw"), whether the
\* cards were stored and, if so, when; whether getCache answered it (hit);
\* for a request that reached the selection the ids of the selected sources
\* and the articles it got
NoFeed ==
    [called |-> FALSE, key |-> "", refresh |-> FALSE, hit |-> FALSE, status |-> 0, body |-> "",
     provider |-> "none", stored |-> FALSE, at |-> 0,
     selected |-> <<>>, articles |-> <<>>]

\* hist records the step completed last: for a cache call its name op, its
\* key (or pattern), value, result ok and the outcome out of its durable
\* command ("ok", "throw", "skipped" when the tier is healthy and the call
\* issues no command, "none" when the tier is unhealthy); the last successful
\* setCache not followed by a delete, a clear or a request (set...); the keys of the fast
\* tier from the least to the most recently accessed (order); the keys the
\* call removed (evicted); and for a setCache of a new key into a full fast
\* tier the key that was least recently accessed (lruVictim, else ""); the
\* key of the last deleteCache as long as no setCache has stored that key
\* again (deleted, else ""); the
\* last /feed request (feed) and, if it stored its cards, the one before it
\* (prev), as long as no other cache call came after them.
NoHist ==
    [op |-> "none", key |-> "", value |-> "", ok |-> FALSE, out |-> "none",
     setLive |-> FALSE, setKey |-> "", setValue |-> "", setTtl |-> 0, setAt |-> 0,
     order |-> <<>>, evicted |-> {}, lruVictim |-> "", deleted |-> "",
     feed |-> NoFeed, prev |-> NoFeed]

\* the keys a getCache at time t can find in one of the tiers
StoredKeys(mem, db, t) ==
    {mem[i].key : i \in {j \in 1..Len(mem) : ~ExpiredAtGet(mem[j], t)}}
        \cup {e.key : e \in RedisLive(db, t)}

\* the access order restricted to the keys the fast tier still holds
Keep(order, mem) == SelectSeq(order, LAMBDA k : k \in MemoryKeys(mem))

\* key becomes the most recently accessed one
Touch(order, key) == Append(SelectSeq(order, LAMBDA k : k # key), key)

\* the record of a call that leaves the fast tier as mem
Called(op, key, value, ok, out, mem) ==
    [hist EXCEPT !.op = op, !.key = key, !.value = value, !.ok = ok, !.out = out,
                 !.order = Keep(@, mem), !.evicted = {}, !.lruVictim = "",
                 !.feed = NoFeed, !.prev = NoFeed]

\* the record of a step that is neither a cache call nor a request
Event(op) ==
    [hist EXCEPT !.op = op, !.key = "", !.value = "", !.ok = FALSE, !.out = "none",
                 !.evicted = {}, !.lruVictim = ""]

\* the last successful setCache is forgotten
Forget(h) ==
    [h EXCEPT !.setLive = FALSE, !.setKey = "", !.setValue = "", !.setTtl = 0, !.setAt = 0]

\* the outcomes a durable command of the next call can have, outs being
\* those of a command that is issued
Outcomes(outs) == IF isRedisConnected /\ client THEN outs ELSE {"none"}

(***************************************************************************)
(* Cache actions                                                           *)
(***************************************************************************)
GetCacheCall(keys, outs) ==
    /\ \E key \in keys, out \in Outcomes(outs) :
          LET r == getCache(memoryCache, redis, isRedisConnected /\ client, key, now, out)
              h == Called("get", key, r.value, r.value # NullValue, out, r.mem)
          IN  /\ memoryCache' = r.mem
              /\ isRedisConnected' = (isRedisConnected /\ (r.conn \/ ~client))
              /\ hist' = IF r.memHit THEN [h EXCEPT !.order = Touch(@, key)] ELSE h
    /\ UNCHANGED <<redis, client, maxSize, now, selVars, otherVars>>

SetCacheCall(keys, values, ttls, outs) ==
    /\ \E key \in keys, value \in values, ttlSec \in ttls :
       \E out \in IF isRedisConnected /\ client THEN RedisSetOutcomes(ttlSec, outs)
                  ELSE {"none"} :
          LET r == setCache(memoryCache, redis, isRedisConnected /\ client, maxSize,
                            key, value, ttlSec, now, out)
              h == Called("set", key, value, r.result, IF r.result THEN out ELSE "none",
                          r.mem)
          IN  /\ memoryCache' = r.mem
              /\ redis' = r.db
              /\ isRedisConnected' = (isRedisConnected /\ (r.conn \/ ~client))
              /\ hist' = IF ~r.result THEN h
                         ELSE [h EXCEPT
                                 !.setLive = TRUE, !.setKey = key, !.setValue = value,
                                 !.setTtl = ttlSec, !.setAt = now,
                                 !.order = Touch(@, key),
                                 !.deleted = IF @ = key THEN "" ELSE @,
                                 !.evicted = MemoryKeys(memoryCache) \ MemoryKeys(r.mem),
                                 !.lruVictim = IF /\ Len(memoryCache) >= maxSize
                                                  /\ Len(memoryCache) > 0
                                                  /\ key \notin MemoryKeys(memoryCache)
                                               THEN hist.order[1] ELSE ""]
    /\ UNCHANGED <<client, maxSize, now, selVars, otherVars>>

DeleteCacheCall(keys, outs) ==
    /\ \E key \in keys, out \in Outcomes(outs) :
          LET r == deleteCache(memoryCache, redis, isRedisConnected /\ client, key, now, out)
          IN  /\ memoryCache' = r.mem
              /\ redis' = r.db
              /\ hist' = [Forget(Called("delete", key, "", r.deleted, out, r.mem))
                            EXCEPT !.deleted = key]
    /\ UNCHANGED <<isRedisConnected, client, maxSize, now, selVars, otherVars>>

ClearCacheCall(patterns, outs) ==
    /\ \E pattern \in patterns :
       \E out \in IF pattern = "" /\ isRedisConnected /\ client THEN {"skipped"}
                  ELSE Outcomes(outs) :
          LET r == clearCache(memoryCache, redis, isRedisConnected /\ client, pattern, now, out)
              h == Called("clear", pattern, "", r.cleared > 0, out, r.mem)
          IN  /\ memoryCache' = r.mem
              /\ redis' = r.db
              /\ hist' = Forget([h EXCEPT !.evicted = StoredKeys(memoryCache, redis, now)
                                                        \ StoredKeys(r.mem, r.db, now)])
    /\ UNCHANGED <<isRedisConnected, client, maxSize, now, selVars, otherVars>>

\* clearExpiredCache(), run by the five-minute timer
ClearExpiredCache ==
    /\ memoryCache' = MemoryCacheCleanup(memoryCache, now)
    /\ hist' = Called("sweep", "", "", memoryCache' # memoryCache, "none", memoryCache')
    /\ UNCHANGED <<redis, isRedisConnected, client, maxSize, now, selVars, otherVars>>

\* client.on('connect') and client.on('ready')
RedisConnected ==
    /\ client
    /\ isRedisConnected' = TRUE
    /\ UNCHANGED <<memoryCache, redis, client, maxSize, now, hist, selVars, otherVars>>

\* client.on('error') and client.on('end')
RedisLost ==
    /\ client
    /\ isRedisConnected' = FALSE
    /\ UNCHANGED <<memoryCache, redis, client, maxSize, now, hist, selVars, otherVars>>

\* the response of a provider that is not asked
NotAsked == [thrown |-> FALSE, articles |-> <<>>]

\* GET /feed.  The outcomes of the calls the handler does not reach are not
\* enumerated: hit is whether getCache returns a list.  pickSources reads
\* the sources file first when the catalog is empty (loaded).
Feed(queries, responses, outs) ==
    /\ \E q \in queries :
       \E getOut \in IF validateFeedQuery(q) /\ ~q.refresh THEN Outcomes(outs) ELSE {"none"} :
       \E hit \in {/\ validateFeedQuery(q) /\ ~q.refresh
                   /\ getCache(memoryCache, redis, isRedisConnected /\ client,
                               feedCacheKey(q), now, getOut).value \notin {NullValue, ""}} :
       \E loaded \in IF validateFeedQuery(q) /\ ~hit /\ Len(sources) = 0
                      THEN LoadedCatalogs[MIN_SOURCES_COUNT] ELSE {sources} :
       \E selected \in {IF validateFeedQuery(q) /\ ~hit
                        THEN pickSources(loaded, q.x, q.y, DefaultOptions) ELSE <<>>} :
       \E response \in IF Len(selected) = 0 THEN {NotAsked} ELSE responses :
       \E fetched \in {getArticlesBySources([i \in 1..Len(selected) |-> selected[i].id],
                                            response)} :
       \E setOut \in IF isRedisConnected /\ client /\ getOut # "throw" /\ ~fetched.thrown
                         /\ Len(selected) > 0
                     THEN RedisSetOutcomes(CACHE_TTL_FEED, outs) ELSE {"none"} :
       \E r \in {feedHandler(memoryCache, redis, isRedisConnected /\ client, maxSize,
                             q, now, getOut, selected, fetched, setOut)} :
          LET read == IF r.memHit THEN Touch(hist.order, r.key) ELSE hist.order
          IN  /\ memoryCache' = r.mem
              /\ redis' = r.db
              /\ isRedisConnected' = (isRedisConnected /\ (r.conn \/ ~client))
              /\ sources' = loaded
              /\ picked' = IF loaded = sources THEN picked ELSE NoPick
              /\ hist' = Forget([hist EXCEPT
                      !.op = "feed", !.key = r.key, !.value = "", !.ok = (r.status = 200),
                      !.out = "none", !.lruVictim = "",
                      !.deleted = IF r.stored /\ @ = r.key THEN "" ELSE @,
                      !.order = IF r.stored THEN Touch(Keep(read, r.mem), r.key)
                                ELSE Keep(read, r.mem),
                      !.evicted = MemoryKeys(memoryCache) \ MemoryKeys(r.mem),
                      !.prev = IF hist.feed.stored
                               THEN [hist.feed EXCEPT !.selected = <<>>, !.articles = <<>>]
                               ELSE NoFeed,
                      !.feed = [called |-> TRUE, key |-> r.key, refresh |-> q.refresh,
                                hit |-> hit, status |-> r.status, body |-> r.body,
                                provider |-> IF r.provider = "none" THEN "none"
                                             ELSE IF response.thrown THEN "throw"
                                             ELSE "ok",
                                stored |-> r.stored,
                                at |-> IF r.stored THEN now ELSE 0,
                                selected |-> [i \in 1..Len(selected) |-> selected[i].id],
                                articles |-> fetched.articles]])
    /\ UNCHANGED <<client, maxSize, now, MIN_SOURCES_COUNT, running, otherVars>>

MaxTime == 2

\* step seconds pass; the server drops the keys whose time to live is over
Tick(step, limit) ==
    /\ now + step <= limit
    /\ now' = now + step
    /\ redis' = RedisLive(redis, now + step)
    /\ hist' = Event("tick")
    /\ UNCHANGED <<memoryCache, isRedisConnected, client, maxSize, selVars, otherVars>>

(***************************************************************************)
(* Inputs of the cache model                                               *)
(***************************************************************************)
MaxMemSize == 2

AnyOutcome == {"ok", "throw"}

CacheKeys == {"feed:1", ""}
CacheValues == {"v1", "v2", Undefined}
CacheTtls == {0, 1}
CachePatterns == {"", "feed:*"}

\* the connection of the client: state is "none" (no client), "connecting"
\* (an attempt is under way), "waiting" (the delay before the next attempt),
\* "ready" or "closed" (given up); retries is the count the client passes to
\* reconnectStrategy; awaited is whether connectRedis still awaits
\* client.connect(); urlValid is whether createClient accepts REDIS_URL
Socket(state, retries, awaited, urlValid) ==
    [state |-> state, retries |-> retries, awaited |-> awaited, urlValid |-> urlValid]

NoSocket == Socket("none", 0, FALSE, TRUE)

\* no call is awaited
NoPending == [op |-> "none", key |-> "", value |-> ""]

\* no cache key computed yet
NoKeyed == [called |-> FALSE, p |-> [x |-> Num(0), y |-> Num(0)],
            q |-> [x |-> Num(0), y |-> Num(0)], pKey |-> "", qKey |-> ""]

\* NEWSAPI_RATE_LIMIT_DELAY, in the unit of the clock
RATE_LIMIT_DELAY == 2

\* the concurrent calls of getArticlesBySources, one per feed request
MaxRequests == 3
Requests == 1..MaxRequests

\* lastRequestTime is 0 when the module is loaded, and Date.now() is then
\* far more than RATE_LIMIT_DELAY beyond it: on the clock of the model,
\* which starts at 0, that is any time at least RATE_LIMIT_DELAY ago
LongAgo == 0 - RATE_LIMIT_DELAY

\* a call is "idle" before it reaches enforceRateLimit, "waiting" in the
\* setTimeout of enforceRateLimit (wake is when the timer is due) and
\* "sent" once newsApiClient.get has been called; overlapped tells that
\* another call was waiting while this one was
NoRequest == [pos |-> "idle", wake |-> 0, overlapped |-> FALSE]

\* the module state of cache.js after loading; hasClient is whether
\* REDIS_URL is configured, size the capacity of the fast tier
CacheInit(hasClient, size) ==
    /\ memoryCache = <<>>
    /\ redis = {}
    /\ isRedisConnected = FALSE
    /\ client = hasClient
    /\ maxSize = size
    /\ now = 0
    /\ hist = NoHist
    /\ keyed = NoKeyed
    /\ reconnectAttempts = 0
    /\ reconnectTimer = FALSE
    /\ socket = IF hasClient THEN Socket("connecting", 0, TRUE, TRUE) ELSE NoSocket
    /\ attempts = 0
    /\ pending = NoPending
    /\ lastRequestTime = LongAgo
    /\ requests = [r \in Requests |-> NoRequest]
    /\ sentAt = <<>>

FixedCatalog ==
    /\ MIN_SOURCES_COUNT = DefaultMinSourcesCount
    /\ sources = getDefaultSources
    /\ picked = NoPick
    /\ running = NoRun

(***************************************************************************)
(* Specification of the two-tier cache                                     *)
(***************************************************************************)
Init == CacheInit(TRUE, MaxMemSize) /\ FixedCatalog

Next ==
    \/ GetCacheCall(CacheKeys \ {""}, AnyOutcome)
    \/ SetCacheCall(CacheKeys, CacheValues, CacheTtls, AnyOutcome)
    \/ DeleteCacheCall(CacheKeys \ {""}, AnyOutcome)
    \/ ClearCacheCall(CachePatterns, AnyOutcome)
    \/ ClearExpiredCache
    \/ RedisConnected
    \/ RedisLost
    \/ Tick(1, MaxTime)

Spec == Init /\ [][Next]_vars

(***************************************************************************)
(* Specification of the catalog and the source selection                   *)
(***************************************************************************)
SelNext == ReloadSources \/ PickSourcesCall

SelCacheInit == SelInit /\ CacheInit(TRUE, MaxMemSize)

SpecSel == SelCacheInit /\ [][SelNext]_vars

(***************************************************************************)
(* Specification of calls interleaved with reloads, statement by statement *)
(***************************************************************************)
StepBiases == {<<Num(0), Num(0)>>, <<Num(7 * Tenth), Num(-2 * Tenth)>>,
               <<Num(-One), Num(-One)>>}

StepNext ==
    \/ PickStart(StepBiases)
    \/ PickFriendly
    \/ PickOpposing
    \/ PickFinish
    \/ ReloadSources

SpecStep == SelCacheInit /\ [][StepNext]_vars

(***************************************************************************)
(* Specification of the fast tier alone (REDIS_URL not configured)         *)
(***************************************************************************)
LruMaxSize == 3

KeyPool == <<"k1", "k2", "k3", "k4", "k5", "k6">>
LruKeys == {KeyPool[i] : i \in 1..(LruMaxSize + 1)}

LruInit == CacheInit(FALSE, LruMaxSize) /\ FixedCatalog

LruNext ==
    \/ GetCacheCall(LruKeys, AnyOutcome)
    \/ SetCacheCall(LruKeys, {"v1"}, {0}, AnyOutcome)
    \/ DeleteCacheCall(LruKeys, AnyOutcome)

SpecLru == LruInit /\ [][LruNext]_vars

(***************************************************************************)
(* Specification of the feed over the built-in catalog                     *)
(***************************************************************************)
FeedMemSize == 1
MaxFeedTicks == 1

FeedQueries ==
    {[x |-> Num(0), y |-> Num(0), refresh |-> r] : r \in BOOLEAN}
        \cup {[x |-> Num(7 * Tenth), y |-> Num(-2 * Tenth), refresh |-> FALSE],
              [x |-> Num(2 * One), y |-> Num(0), refresh |-> FALSE]}

ArticlePool ==
    << RawArticle("u1", "t1", "usa-today", JsString("d1")),
       RawArticle("u2", "t2", "bbc-news", JsUndefined),
       RawArticle("u3", "", "cnn", JsString("d1")),
       RawArticle("u1", "t4", "fox-news", JsString("d1")),
       RawArticle("u5", "t5", "cnn", JsString("d2")),
       RawArticle("u6", "t6", "reuters", JsString("d2")) >>

ArticleBatches == {<<ArticlePool[3]>>, <<ArticlePool[1]>>, ArticlePool}

ProviderResponses ==
    {[thrown |-> TRUE, articles |-> <<>>]}
        \cup {[thrown |-> FALSE, articles |-> b] : b \in ArticleBatches}

ArticleKeys == {"article:u1"}
ArticleValues == {"{\"title\":\"t1\"}"}

FeedInit == CacheInit(TRUE, FeedMemSize) /\ FixedCatalog

FeedNext ==
    \/ Feed(FeedQueries, ProviderResponses, AnyOutcome)
    \/ RedisConnected
    \/ RedisLost
    \/ Tick(CACHE_TTL_FEED, CACHE_TTL_FEED * MaxFeedTicks)

SpecFeed == FeedInit /\ [][FeedNext]_vars

(***************************************************************************)
(* Specification of a durable-tier outage: every durable command throws    *)
(***************************************************************************)
OutageMemSize == 2

OutageNext ==
    \/ Feed(FeedQueries, ProviderResponses, {"throw"})
    \/ GetCacheCall(ArticleKeys, {"throw"})
    \/ SetCacheCall(ArticleKeys, ArticleValues, {CACHE_TTL_FEED}, {"throw"})
    \/ RedisConnected
    \/ RedisLost
    \/ Tick(CACHE_TTL_FEED, CACHE_TTL_FEED * MaxFeedTicks)

OutageInit == CacheInit(TRUE, OutageMemSize) /\ FixedCatalog

SpecOutage == OutageInit /\ [][OutageNext]_vars

(***************************************************************************)
(* Specification of the feed over a catalog that may be empty              *)
(***************************************************************************)
EmptyQueries ==
    {[x |-> Num(0), y |-> Num(0), refresh |-> r] : r \in BOOLEAN}
        \cup {[x |-> Num(2 * One), y |-> Num(0), refresh |-> FALSE]}

EmptyInit ==
    /\ CacheInit(TRUE, FeedMemSize)
    /\ MIN_SOURCES_COUNT = NegativeMinimum
    /\ sources \in LoadedCatalogs[MIN_SOURCES_COUNT]
    /\ picked = NoPick
    /\ running = NoRun

EmptyNext ==
    \/ Feed(EmptyQueries, ProviderResponses, AnyOutcome)
    \/ ReloadSources
    \/ RedisConnected
    \/ RedisLost
    \/ Tick(CACHE_TTL_FEED, CACHE_TTL_FEED * MaxFeedTicks)

SpecEmpty == EmptyInit /\ [][EmptyNext]_vars

(***************************************************************************)
(* Specification of the connection to the durable tier                     *)
(***************************************************************************)
MAX_RECONNECT_ATTEMPTS == 2

Min(a, b) == IF a < b THEN a ELSE b

\* socket.reconnectStrategy: the delay in ms before the next attempt, or
\* -1 for false (give up)
reconnectStrategy(retries) ==
    IF retries > MAX_RECONNECT_ATTEMPTS THEN -1 ELSE Min(retries * 1000, 10000)

\* the catch block of connectRedis with the counter at n: whether a retry
\* is scheduled
ScheduleRetry(n) == n < MAX_RECONNECT_ATTEMPTS

\* the attempt under way succeeds: 'connect' (flag true, counter reset, timer
\* cleared), then 'ready', and client.connect() resolves
SocketReady ==
    /\ socket.state = "connecting"
    /\ isRedisConnected' = TRUE
    /\ reconnectAttempts' = 0
    /\ reconnectTimer' = FALSE
    /\ socket' = Socket("ready", 0, FALSE, socket.urlValid)
    /\ attempts' = 0
    /\ hist' = Event("connect")
    /\ UNCHANGED <<memoryCache, redis, client, maxSize, now, keyed, rateVars, pending, selVars>>

\* the attempt under way fails: the client asks reconnectStrategy(retries);
\* on a delay it emits 'error' (flag false) and waits; on false it gives up:
\* client.connect(), if still awaited, rejects into the catch block (flag
\* false, a retry scheduled while reconnectAttempts < MAX_RECONNECT_ATTEMPTS)
SocketFails ==
    /\ socket.state = "connecting"
    /\ isRedisConnected' = FALSE
    /\ IF reconnectStrategy(socket.retries) >= 0
       THEN /\ socket' = [socket EXCEPT !.state = "waiting", !.retries = @ + 1]
            /\ UNCHANGED reconnectTimer
       ELSE /\ socket' = [socket EXCEPT !.state = "closed", !.awaited = FALSE]
            /\ reconnectTimer' = (reconnectTimer
                                    \/ (socket.awaited /\ ScheduleRetry(reconnectAttempts)))
    /\ hist' = Event("error")
    /\ UNCHANGED <<memoryCache, redis, client, maxSize, now, keyed, rateVars, pending, reconnectAttempts,
                   attempts, selVars>>

\* the delay is over: 'reconnecting' (reconnectAttempts++) and the next
\* attempt starts
Reconnecting ==
    /\ socket.state = "waiting"
    /\ reconnectAttempts' = reconnectAttempts + 1
    /\ socket' = [socket EXCEPT !.state = "connecting"]
    /\ attempts' = attempts + 1
    /\ hist' = Event("reconnecting")
    /\ UNCHANGED <<memoryCache, redis, isRedisConnected, client, maxSize, now, keyed, rateVars, pending,
                   reconnectTimer, selVars>>

\* an established connection breaks: 'error' (flag false); the client asks
\* reconnectStrategy(0) and goes on to reconnect
SocketLost ==
    /\ socket.state = "ready"
    /\ isRedisConnected' = FALSE
    /\ socket' = [socket EXCEPT !.state = IF reconnectStrategy(0) >= 0 THEN "waiting"
                                          ELSE "closed"]
    /\ hist' = Event("error")
    /\ UNCHANGED <<memoryCache, redis, client, maxSize, now, keyed, rateVars, pending, reconnectAttempts,
                   reconnectTimer, attempts, selVars>>

\* the timer set by the catch block fires: reconnectAttempts++ and
\* connectRedis() again; createClient throws on a REDIS_URL it cannot parse,
\* which leads into the catch block at once
RetryTimerFires ==
    /\ reconnectTimer
    /\ reconnectAttempts' = reconnectAttempts + 1
    /\ attempts' = attempts + 1
    /\ IF socket.urlValid
       THEN /\ client' = TRUE
            /\ socket' = Socket("connecting", 0, TRUE, TRUE)
            /\ reconnectTimer' = FALSE
            /\ UNCHANGED isRedisConnected
       ELSE /\ isRedisConnected' = FALSE
            /\ reconnectTimer' = ScheduleRetry(reconnectAttempts + 1)
            /\ UNCHANGED <<client, socket>>
    /\ hist' = Event("retry")
    /\ UNCHANGED <<memoryCache, redis, maxSize, now, keyed, rateVars, pending, selVars>>

ReconnectMemSize == 1

\* after the connectRedis() of the module: a client that is connecting, or,
\* createClient having thrown, no client and the retry timer set
ReconnectInit ==
    /\ memoryCache = <<>>
    /\ redis = {}
    /\ isRedisConnected = FALSE
    /\ maxSize = ReconnectMemSize
    /\ now = 0
    /\ hist = NoHist
    /\ keyed = NoKeyed
    /\ pending = NoPending
    /\ lastRequestTime = LongAgo
    /\ requests = [r \in Requests |-> NoRequest]
    /\ sentAt = <<>>
    /\ reconnectAttempts = 0
    /\ attempts = 0
    /\ \/ client = TRUE /\ socket = Socket("connecting", 0, TRUE, TRUE)
          /\ reconnectTimer = FALSE
       \/ client = FALSE /\ socket = Socket("none", 0, FALSE, FALSE)
          /\ reconnectTimer = ScheduleRetry(0)
    /\ FixedCatalog

ReconnectNext ==
    \/ SocketReady
    \/ SocketFails
    \/ Reconnecting
    \/ SocketLost
    \/ RetryTimerFires
    \/ GetCacheCall(CacheKeys \ {""}, AnyOutcome)
    \/ SetCacheCall(CacheKeys \ {""}, {"v1", "v2"}, {CACHE_TTL_FEED}, AnyOutcome)
    \/ DeleteCacheCall(CacheKeys \ {""}, AnyOutcome)
    \/ ClearCacheCall(CachePatterns, AnyOutcome)
    \/ Tick(CACHE_TTL_FEED, CACHE_TTL_FEED * MaxFeedTicks)

SpecReconnect == ReconnectInit /\ [][ReconnectNext]_vars

(***************************************************************************)
(* Specification of the awaited calls: a durable command or the provider   *)
(* may answer late or never                                                *)
(***************************************************************************)
WaitMemSize == 1

\* getCache(key) up to its await: with a healthy tier it issues client.get
\* and awaits the reply; otherwise it runs to its end on the fast tier
GetCacheStart(keys) ==
    /\ pending = NoPending
    /\ \E key \in keys :
          IF isRedisConnected /\ client
          THEN /\ pending' = [op |-> "get", key |-> key, value |-> ""]
               /\ hist' = Event("await")
               /\ UNCHANGED memoryCache
          ELSE LET r == getCache(memoryCache, redis, FALSE, key, now, "none")
                   h == Called("get", key, r.value, r.value # NullValue, "none", r.mem)
               IN  /\ memoryCache' = r.mem
                   /\ hist' = IF r.memHit THEN [h EXCEPT !.order = Touch(@, key)] ELSE h
                   /\ UNCHANGED pending
    /\ UNCHANGED <<redis, isRedisConnected, client, maxSize, now, keyed, rateVars, connVars, selVars>>

\* setCache(key, value, ttl) up to its await: with a healthy tier it issues
\* client.set and awaits the reply; otherwise it stores in the fast tier
SetCacheStart(keys, values) ==
    /\ pending = NoPending
    /\ \E key \in keys, value \in values :
          IF isRedisConnected /\ client
          THEN /\ pending' = [op |-> "set", key |-> key, value |-> value]
               /\ hist' = Event("await")
               /\ UNCHANGED memoryCache
          ELSE LET r == setCache(memoryCache, redis, FALSE, maxSize, key, value,
                                 CACHE_TTL_FEED, now, "none")
               IN  /\ memoryCache' = r.mem
                   /\ hist' = Called("set", key, value, r.result, "none", r.mem)
                   /\ UNCHANGED pending
    /\ UNCHANGED <<redis, isRedisConnected, client, maxSize, now, keyed, rateVars, connVars, selVars>>

\* the durable tier answers the awaited command (a reply, or an error that
\* the call catches), and the call runs to its end; the awaits of getCache
\* and setCache have no timer beside them
DurableAnswers(outs) ==
    /\ pending.op \in {"get", "set"}
    /\ \E out \in outs :
          IF pending.op = "get"
          THEN LET r == getCache(memoryCache, redis, TRUE, pending.key, now, out)
                   h == Called("get", pending.key, r.value, r.value # NullValue, out, r.mem)
               IN  /\ memoryCache' = r.mem
                   /\ isRedisConnected' = (isRedisConnected /\ r.conn)
                   /\ hist' = IF r.memHit THEN [h EXCEPT !.order = Touch(@, pending.key)]
                               ELSE h
                   /\ UNCHANGED redis
          ELSE LET r == setCache(memoryCache, redis, TRUE, maxSize, pending.key,
                                 pending.value, CACHE_TTL_FEED, now, out)
               IN  /\ memoryCache' = r.mem
                   /\ redis' = r.db
                   /\ isRedisConnected' = (isRedisConnected /\ r.conn)
                   /\ hist' = Called("set", pending.key, pending.value, r.result, out, r.mem)
    /\ pending' = NoPending
    /\ UNCHANGED <<client, maxSize, now, keyed, rateVars, connVars, selVars>>

\* getArticlesBySources up to its await of newsApiClient.get
ProviderStart ==
    /\ pending = NoPending
    /\ pending' = [op |-> "provider", key |-> "", value |-> ""]
    /\ hist' = Event("await")
    /\ UNCHANGED <<memoryCache, redis, isRedisConnected, client, maxSize, now, keyed, rateVars,
                   connVars, selVars>>

\* the provider answers: a response or an error
ProviderAnswers(responses) ==
    /\ pending.op = "provider"
    /\ \E response \in responses :
          hist' = [Event("provider") EXCEPT !.ok = ~getArticlesBySources(<<"cnn">>, response).thrown]
    /\ pending' = NoPending
    /\ UNCHANGED <<memoryCache, redis, isRedisConnected, client, maxSize, now, keyed, rateVars,
                   connVars, selVars>>

\* the timeout of newsApiClient ends the request with an error, which
\* getArticlesBySources rethrows
ProviderTimeout ==
    /\ pending.op = "provider"
    /\ hist' = Event("timeout")
    /\ pending' = NoPending
    /\ UNCHANGED <<memoryCache, redis, isRedisConnected, client, maxSize, now, keyed, rateVars,
                   connVars, selVars>>

WaitInit == CacheInit(TRUE, WaitMemSize) /\ FixedCatalog

WaitNext ==
    \/ GetCacheStart(CacheKeys \ {""})
    \/ SetCacheStart(CacheKeys \ {""}, {"v1", "v2"})
    \/ DurableAnswers(AnyOutcome)
    \/ ProviderStart
    \/ ProviderAnswers(ProviderResponses)
    \/ ProviderTimeout
    \/ RedisConnected
    \/ Tick(CACHE_TTL_FEED, CACHE_TTL_FEED * MaxFeedTicks)

\* the connection stays up while a command is awaited; the timer of newsApiClient fires if the provider has not answered; the
\* durable tier and the provider are free never to answer
SpecWait == WaitInit /\ [][WaitNext]_vars /\ WF_vars(ProviderTimeout)

(***************************************************************************)
(* Specification of the two-tier cache under any configured size           *)
(***************************************************************************)
\* parseInt(process.env.MAX_MEMORY_CACHE_SIZE) || 1000 keeps a negative
\* setting
NegativeSize == -1

MemSizes == {NegativeSize, 1, MaxMemSize}

SizeKeys == {"feed:1", "feed:2", "feed:3"}

SizeInit == \E size \in MemSizes : CacheInit(TRUE, size) /\ FixedCatalog

SizeNext ==
    \/ GetCacheCall({"feed:1"}, {"throw"})
    \/ SetCacheCall(SizeKeys, {"v1"}, {1}, AnyOutcome)
    \/ DeleteCacheCall({"feed:1"}, {"throw"})
    \/ ClearCacheCall(CachePatterns, {"throw"})
    \/ ClearExpiredCache
    \/ RedisConnected
    \/ RedisLost
    \/ Tick(1, MaxTime)

SpecSize == SizeInit /\ [][SizeNext]_vars

(***************************************************************************)
(* Specification of the fast tier with expiring entries (REDIS_URL not     *)
(* configured: every cache call is the MemoryCache call)                   *)
(***************************************************************************)
ExpiryMemSize == 2

ExpiryKeys == {"k1", "k2", "k3"}

ExpiryInit == CacheInit(FALSE, ExpiryMemSize) /\ FixedCatalog

ExpiryNext ==
    \/ GetCacheCall(ExpiryKeys, AnyOutcome)
    \/ SetCacheCall(ExpiryKeys, {"v1", "v2"}, {0, 1}, AnyOutcome)
    \/ DeleteCacheCall(ExpiryKeys, AnyOutcome)
    \/ ClearExpiredCache
    \/ Tick(1, MaxTime)

SpecExpiry == ExpiryInit /\ [][ExpiryNext]_vars

(***************************************************************************)
(* Specification of the cache over a server that accepts every connection: *)
(* an attempt under way succeeds and the delay before an attempt ends (the *)
(* client's timer); an established connection may break, and a command may *)
(* fail while the connection stays open                                    *)
(***************************************************************************)
RecoverMemSize == 1

RecoverInit == CacheInit(TRUE, RecoverMemSize) /\ FixedCatalog

RecoverNext ==
    \/ SocketReady
    \/ SocketLost
    \/ Reconnecting
    \/ GetCacheCall(CacheKeys \ {""}, AnyOutcome)
    \/ SetCacheCall(CacheKeys \ {""}, {"v1", "v2"}, {CACHE_TTL_FEED}, AnyOutcome)
    \/ Tick(CACHE_TTL_FEED, CACHE_TTL_FEED * MaxFeedTicks)

SpecRecover ==
    RecoverInit /\ [][RecoverNext]_vars /\ WF_vars(SocketReady) /\ WF_vars(Reconnecting)

(***************************************************************************)
(* Specification of the provider's rate limit: concurrent calls of         *)
(* getArticlesBySources, each running enforceRateLimit and then starting   *)
(* its request.  A call runs without interruption up to its await.         *)
(***************************************************************************)
MaxRateTime == 4

Sent(r, overlapped) == [r |-> r, at |-> now, overlapped |-> overlapped]

\* enforceRateLimit up to its await: the call reads the clock and
\* lastRequestTime; too early, it sets a timer for the rest of the delay
\* and waits; otherwise it stores the time and its request starts
EnforceRateLimit ==
    /\ \E r \in Requests :
          /\ requests[r].pos = "idle"
          /\ LET timeSinceLastRequest == now - lastRequestTime
                 waitTime == RATE_LIMIT_DELAY - timeSinceLastRequest
                 others == \E q \in Requests \ {r} : requests[q].pos = "waiting"
                 seen == [q \in Requests |->
                             IF requests[q].pos = "waiting"
                             THEN [requests[q] EXCEPT !.overlapped = TRUE]
                             ELSE requests[q]]
             IN  IF timeSinceLastRequest < RATE_LIMIT_DELAY
                 THEN /\ requests' =
                            [seen EXCEPT ![r] = [pos |-> "waiting", wake |-> now + waitTime,
                                                 overlapped |-> others]]
                      /\ UNCHANGED <<lastRequestTime, sentAt>>
                 ELSE /\ requests' = [seen EXCEPT ![r].pos = "sent"]
                      /\ lastRequestTime' = now
                      /\ sentAt' = Append(sentAt, Sent(r, others))
    /\ hist' = Event("request")
    /\ UNCHANGED <<memoryCache, redis, isRedisConnected, client, maxSize, now, keyed,
                   connVars, pending, selVars>>

\* the timer of a waiting call fires: the call stores the time and its
\* request starts (lastRequestTime is not read again)
RateLimitTimerFires ==
    /\ \E r \in Requests :
          /\ requests[r].pos = "waiting"
          /\ now >= requests[r].wake
          /\ requests' = [requests EXCEPT ![r].pos = "sent"]
          /\ lastRequestTime' = now
          /\ sentAt' = Append(sentAt, Sent(r, requests[r].overlapped))
    /\ hist' = Event("timer")
    /\ UNCHANGED <<memoryCache, redis, isRedisConnected, client, maxSize, now, keyed,
                   connVars, pending, selVars>>

\* the clock advances; a timer that is due fires before it does
RateTick ==
    /\ \A r \in Requests : ~(requests[r].pos = "waiting" /\ requests[r].wake <= now)
    /\ Tick(1, MaxRateTime)

RateInit == CacheInit(FALSE, MaxMemSize) /\ FixedCatalog

RateNext ==
    \/ EnforceRateLimit
    \/ RateLimitTimerFires
    \/ RateTick

SpecRate == RateInit /\ [][RateNext]_vars

(***************************************************************************)
(* Specification of the cache key of the feed                              *)
(***************************************************************************)
\* coordinates around the rounding steps of the third decimal, in units of
\* 1 / One
KeyCoords == {-One, -6, -5, -4, -1, 0, 1, 5, One}

KeyPoints == {[x |-> Num(a), y |-> Num(b)] : a \in KeyCoords, b \in {-1, 0}}

\* two valid /feed queries, each up to the computation of its cache key
FeedKeys(points) ==
    /\ \E p \in points, q \in points :
          /\ validateFeedQuery(p) /\ validateFeedQuery(q)
          /\ keyed' = [called |-> TRUE, p |-> p, q |-> q,
                        pKey |-> feedCacheKey(p), qKey |-> feedCacheKey(q)]
    /\ UNCHANGED <<selVars, cacheVars, connVars, pending, rateVars>>

KeyInit == CacheInit(TRUE, MaxMemSize) /\ FixedCatalog

KeyNext == FeedKeys(KeyPoints)

SpecKey == KeyInit /\ [][KeyNext]_vars

(***************************************************************************)
(* Properties of the source selection (checked under SpecSel)              *)
(***************************************************************************)
InRange(b) == IsNumber(b) /\ b.v >= -One /\ b.v <= One
ResultIds(r) == {r[i].id : i \in 1..Len(r)}
Positions(r, side) == {i \in 1..Len(r) : r[i].side = side}
DefaultPick == picked.called /\ picked.options = DefaultOptions
UniqueIds(c) == \A i, j \in 1..Len(c) : i # j => c[i].id # c[j].id

\* C1: for a bias in [-1,1]^2 and a loaded catalog of at least 4 active
\* sources, pickSources with the default options returns exactly
\* friendlyCount + opposingCount entries with pairwise distinct ids.
C1_PickReturnsFourDistinct ==
    (DefaultPick /\ InRange(picked.x) /\ InRange(picked.y) /\ Len(picked.catalog) >= 4)
    => /\ Len(picked.result) = picked.options.friendlyCount + picked.options.opposingCount
       /\ Cardinality(ResultIds(picked.result)) = Len(picked.result)

\* the catalog positions of the sources located exactly at the mirrored point
AtMirror == {i \in 1..Len(picked.catalog) :
                /\ picked.catalog[i].x = -picked.x.v
                /\ picked.catalog[i].y = -picked.y.v}

\* the catalog source i is listed in the opposing part before every opposing
\* entry that is farther from the mirrored point
MirrorSourceLeads(i) ==
    \E p \in Positions(picked.result, "opposing") :
        /\ picked.result[p].id = picked.catalog[i].id
        /\ picked.result[p].x = picked.catalog[i].x
        /\ picked.result[p].y = picked.catalog[i].y
        /\ \A q \in Positions(picked.result, "opposing") :
              picked.result[q].distance > picked.result[p].distance => p < q

Fallbacks(r) == {i \in 1..Len(r) : r[i].isFallback}

\* C10 as claimed: with a catalog of only 2 active sources and
\* friendlyCount = opposingCount = 2 the result has length 4 and exactly 2
\* entries marked isFallback.
C10_TwoSourcesGiveFour ==
    (DefaultPick /\ InRange(picked.x) /\ InRange(picked.y) /\ Len(picked.catalog) = 2)
    => /\ Len(picked.result) = 4
       /\ Cardinality(Fallbacks(picked.result)) = 2

\* C10 amended: with a catalog of only 2 active sources, the default counts
\* and a bias in [-1,1]^2 the result has at most 2 entries, none marked
\* isFallback; when the two ids differ it has exactly 2 entries, one per
\* catalog source.
C10_TwoSourcesAmended ==
    (DefaultPick /\ InRange(picked.x) /\ InRange(picked.y) /\ Len(picked.catalog) = 2)
    => /\ Len(picked.result) <= 2
       /\ Fallbacks(picked.result) = {}
       /\ UniqueIds(picked.catalog) =>
             /\ Len(picked.result) = 2
             /\ \A i \in 1..2 :
                   Cardinality({p \in 1..Len(picked.result) :
                                   /\ picked.result[p].id = picked.catalog[i].id
                                   /\ picked.result[p].x = picked.catalog[i].x
                                   /\ picked.result[p].y = picked.catalog[i].y}) = 1

\* C10 witness: a default pick on a two-source catalog
C10_Witness ==
    /\ DefaultPick /\ InRange(picked.x) /\ InRange(picked.y)
    /\ Len(picked.catalog) = 2 /\ UniqueIds(picked.catalog) /\ Len(picked.result) = 2

DefaultCounts ==
    picked.called /\ picked.options.friendlyCount = 2 /\ picked.options.opposingCount = 2

\* C11: whenever the catalog is non-empty, pickSources with the default
\* counts returns at least min(4, catalogSize) entries, for every bias and
\* every category filter, and never an empty list.
C11_PickNeverShort ==
    (DefaultCounts /\ Len(picked.catalog) > 0)
    => /\ Len(picked.result) >= (IF Len(picked.catalog) < 4 THEN Len(picked.catalog) ELSE 4)
       /\ Len(picked.result) > 0

\* the call raised an exception inside the try block
PickThrew ==
    /\ picked.called
    /\ picked.options.isNull \/ ~TypeofNumber(picked.x) \/ ~TypeofNumber(picked.y)

\* C12: a call whose selection raises an exception (coordinates that are no
\* numbers, null options) returns the emergency list: the first 4 built-in
\* sources, the first two friendly, the last two opposing, all isFallback.
C12_ErrorsGiveEmergencyList ==
    PickThrew
    => /\ Len(picked.result) = 4
       /\ \A i \in 1..4 :
             /\ picked.result[i].id = getDefaultSources[i].id
             /\ picked.result[i].side = (IF i <= 2 THEN "friendly" ELSE "opposing")
             /\ picked.result[i].isFallback

\* C12 witness: a call with a string coordinate has returned four entries
C12_Witness ==
    /\ picked.called /\ ~TypeofNumber(picked.x) /\ ~picked.options.isNull
    /\ Len(picked.result) = 4 /\ picked.result[1].isFallback

FromCentre(c) == calculateDistance(0, 0, c.x, c.y)

\* C14: with the built-in catalog and bias (0,0) the friendly part is
\* usa-today followed by the closer one of reuters and associated-press, and
\* the opposing part is the two sources closest to (0,0) among those not
\* chosen as friendly.
C14_BuiltInCatalogAtCentre ==
    (DefaultPick /\ picked.catalog = getDefaultSources
        /\ picked.x = Num(0) /\ picked.y = Num(0))
    => LET r == picked.result
           rest == {c \in Range(getDefaultSources) : c.id \notin {r[1].id, r[2].id}}
           other == CHOOSE c \in Range(getDefaultSources) :
                       c.id \in {"reuters", "associated-press"} \ {r[2].id}
       IN  /\ Len(r) = 4
           /\ Positions(r, "friendly") = {1, 2} /\ Positions(r, "opposing") = {3, 4}
           /\ r[1].id = "usa-today"
           /\ r[2].id \in {"reuters", "associated-press"}
           /\ r[2].distance <= FromCentre(other)
           /\ {r[3].id, r[4].id} \subseteq {c.id : c \in rest}
           /\ r[3].id # r[4].id
           /\ \A c \in rest : c.id \notin {r[3].id, r[4].id}
                                => FromCentre(c) >= r[3].distance /\ FromCentre(c) >= r[4].distance

\* C14 witness: the default pick at (0,0) on the built-in catalog
C14_Witness ==
    /\ DefaultPick /\ picked.catalog = getDefaultSources
    /\ picked.x = Num(0) /\ picked.y = Num(0)
    /\ ResultIds(picked.result) = {"usa-today", "associated-press", "bbc-news", "reuters"}

\* a record validateSources lets through
ActiveInRange(c) ==
    /\ c.id # "" /\ c.name # <<>> /\ c.active
    /\ c.x >= -One /\ c.x <= One /\ c.y >= -One /\ c.y <= One

\* C15 as claimed: after every load the catalog holds at least 4 active
\* sources and is the validated file content or the built-in catalog.
C15_CatalogAtLeastFour ==
    /\ Len(sources) >= 4
    /\ \A i \in 1..Len(sources) : ActiveInRange(sources[i])

\* C15 amended: after every load the catalog is the built-in catalog of 6
\* sources or holds at least MIN_SOURCES_COUNT records, all of them valid and
\* active; it is never empty.
C15_CatalogAmended ==
    /\ Len(sources) >= 1
    /\ \A i \in 1..Len(sources) : ActiveInRange(sources[i])
    /\ \/ sources = getDefaultSources
       \/ Len(sources) >= MIN_SOURCES_COUNT

\* C15 witness: a file with fewer than 4 valid sources was accepted under a
\* configured minimum of 2 and served a call
C15_Witness ==
    /\ picked.called /\ sources # getDefaultSources
    /\ Len(sources) < 4 /\ Len(sources) >= MIN_SOURCES_COUNT

\* C16: the loaded catalog never holds two sources with the same id.
C16_CatalogIdsUnique == UniqueIds(sources)

\* C17: every call interleaved with reloads computes its friendly, opposing
\* and fallback sets from one catalog version: its three searches read the
\* same catalog and its result is the selection over that catalog.
C17_PickReadsOneCatalog ==
    running.done
    => /\ Len(running.reads) = 3
       /\ \A i \in 1..3 : running.reads[i] = running.reads[1]
       /\ picked.called
           => picked.result = pickSources(running.reads[1], running.x, running.y,
                                          DefaultOptions)

\* C17 witness: a call made statement by statement has returned a selection
\* of four sources from a catalog loaded from a file
C17_Witness ==
    /\ running.done /\ picked.called /\ Len(picked.result) = 4
    /\ sources # getDefaultSources

(***************************************************************************)
(* Properties of the two-tier cache (checked under Spec)                   *)
(***************************************************************************)
\* the call completed last is a getCache of the key of the last successful
\* setCache, with no delete or clear in between
GetAfterSet ==
    /\ hist.op = "get" /\ hist.setLive /\ hist.key = hist.setKey /\ hist.setTtl >= 1

\* C2: setCache(k, v, ttl) followed by getCache(k) returns v while the ttl
\* has not elapsed, and absent once more than ttl seconds have elapsed,
\* whatever the health of the durable tier during the two calls.
C2_CacheRoundTrip ==
    GetAfterSet =>
        /\ now - hist.setAt < hist.setTtl => hist.value = hist.setValue
        /\ now - hist.setAt > hist.setTtl => hist.value = NullValue

\* C6: clearCache(pattern) removes every key matching the glob pattern from
\* both tiers and no other key, and clearCache() removes every key from
\* both tiers, so that no getCache finds a cleared key (stated for calls made
\* while the durable tier is healthy and answers).
C6_ClearRemovesFromBothTiers ==
    (hist.op = "clear" /\ hist.out \in {"ok", "skipped"})
    => /\ \A k \in StoredKeys(memoryCache, redis, now) :
             ~(hist.key = "" \/ GlobMatch(hist.key, k))
       /\ \A k \in hist.evicted : hist.key = "" \/ GlobMatch(hist.key, k)

\* the fast tier mem holds (key, value)
MemoryHolds(mem, key, value) ==
    \E i \in 1..Len(mem) : mem[i].key = key /\ mem[i].value = value

\* C7: every setCache with a valid key and value leaves (key, value) in the
\* fast tier and reports true, whether the durable write succeeds, throws or
\* is skipped; a durable write that throws changes nothing but the health
\* flag, which becomes false, and no other call outcome changes the flag.
C7_SetCacheWriteThrough ==
    [][SetCacheCall(CacheKeys \ {""}, CacheValues \ {Undefined}, CacheTtls, AnyOutcome)
       => /\ hist'.ok
          /\ MemoryHolds(memoryCache', hist'.key, hist'.value)
          /\ hist'.out = "throw" => ~isRedisConnected' /\ redis' = redis
          /\ hist'.out # "throw" => isRedisConnected' = isRedisConnected
          /\ client' = client /\ maxSize' = maxSize]_vars

\* C7 witness: a setCache whose durable write threw has returned true with
\* the pair in the fast tier and the flag down
C7_Witness ==
    /\ hist.op = "set" /\ hist.ok /\ hist.out = "throw"
    /\ MemoryHolds(memoryCache, hist.key, hist.value)
    /\ ~isRedisConnected

\* C5: a setCache of a new key into a full fast tier evicts exactly one
\* entry, the least recently accessed one, and the new key is present.
C5_LruEvictsLeastRecentlyAccessed ==
    (hist.op = "set" /\ hist.lruVictim # "")
    => /\ hist.evicted = {hist.lruVictim}
       /\ hist.key \in MemoryKeys(memoryCache)

(***************************************************************************)
(* Properties of the feed (checked under SpecFeed and SpecOutage)          *)
(***************************************************************************)
\* the request completed last repeats, without refresh and before the time
\* to live is over, the request before it, which stored its cards
RepeatedFeed ==
    /\ hist.op = "feed" /\ hist.feed.called /\ ~hist.feed.refresh
    /\ hist.prev.called /\ hist.prev.key = hist.feed.key
    /\ now - hist.prev.at < CACHE_TTL_FEED

\* C3: while every durable command fails, setCache reports success, a
\* following getCache returns the stored value, and a repeated feed request
\* is answered with the cards of the first one; no request fails unless the
\* provider does.
C3_OutageServedByFastTier ==
    /\ (hist.op = "set" /\ hist.key # "" /\ hist.value # Undefined) => hist.ok
    /\ (GetAfterSet /\ now - hist.setAt < hist.setTtl) => hist.value = hist.setValue
    /\ RepeatedFeed => /\ hist.feed.status = 200
                       /\ hist.feed.provider = "none"
                       /\ hist.feed.body = hist.prev.body
    /\ (hist.op = "feed" /\ hist.feed.status = 500) => hist.feed.provider = "throw"

\* C3 witness: during the outage a repeated request was answered from the
\* fast tier after a getCache found a value stored there
C3_Witness ==
    /\ RepeatedFeed /\ hist.feed.status = 200 /\ hist.feed.provider = "none"
    /\ hist.prev.body # "[]"
    /\ redis = {}

\* C4: a feed request repeated with the same bias and without refresh, after
\* a request that fetched and stored its cards, is served from the cache:
\* the provider is not asked again and the response is the stored card list.
C4_RepeatServedFromCache ==
    (RepeatedFeed /\ ~hist.prev.refresh)
    => /\ hist.feed.provider = "none"
       /\ hist.feed.status = 200
       /\ hist.feed.body = hist.prev.body

\* the entries a getCache at time t can find, tier by tier
LiveEntries(mem, db, t) ==
    <<SelectSeq(mem, LAMBDA e : ~ExpiredAtGet(e, t)), RedisLive(db, t)>>

\* C8: a feed request whose provider call fails is answered with an error
\* and leaves the entries of both tiers as they were.
C8_ProviderFailureLeavesCache ==
    [][(hist'.op = "feed" /\ hist'.feed.provider = "throw")
       => /\ hist'.feed.status = 500
          /\ LiveEntries(memoryCache', redis', now') = LiveEntries(memoryCache, redis, now)]_vars

\* C8 witness: a request failed with the provider while both tiers held
\* entries
C8_Witness ==
    /\ hist.op = "feed" /\ hist.feed.provider = "throw" /\ hist.feed.status = 500
    /\ Len(memoryCache) > 0 /\ redis # {}

\* the value of the property name of the object obj, undefined if it has none
Prop(obj, name) ==
    IF \E i \in 1..Len(obj) : obj[i][1] = name
    THEN obj[CHOOSE i \in 1..Len(obj) : obj[i][1] = name][2]
    ELSE JsUndefined

\* the cards of the response of the last request
Cards == JSONparse(hist.feed.body)

\* the last step was a request answered 200
FeedSucceeded == hist.op = "feed" /\ hist.feed.called /\ hist.feed.status = 200

\* the last step was a request answered with cards built from the provider's
\* articles
FeedAssembled == FeedSucceeded /\ hist.feed.provider = "ok"

ArticleOf(articles, card) ==
    CHOOSE a \in Range(articles) :
        /\ JsString(a.url) = Prop(card, "url")
        /\ JsString(a.title) = Prop(card, "title")

\* the positions in cards of the cards of the source srcId
CardsOf(cards, srcId) ==
    {c \in 1..Len(cards) : Prop(cards[c], "sourceId") = JsString(srcId)}

\* the articles whose url no card of the sources before the i-th one carries
UnusedAt(cards, selected, articles, i) ==
    {a \in Range(articles) :
        \A j \in 1..(i - 1) : \A c \in CardsOf(cards, selected[j]) :
            Prop(cards[c], "url") # JsString(a.url)}

\* C19: the cards follow the order of the selected sources; a source gets a
\* card from an unused article of its own when there is one, else a card
\* marked isFallback from another unused article, and no card only when no
\* unused article is left; a card is marked isFallback exactly when the
\* source of its article is not the card's sourceId.
C19_CardsFollowSources ==
    FeedAssembled
    => \A cards \in {Cards} :
       \A selected \in {hist.feed.selected} :
       \A articles \in {hist.feed.articles} :
          /\ \A i \in 1..Len(selected) :
              \A unused \in {UnusedAt(cards, selected, articles, i)} :
              \A mine \in {CardsOf(cards, selected[i])} :
                 LET own == {a \in unused : a.source.id = selected[i]}
                 IN  /\ Cardinality(mine) <= 1
                     /\ unused = {} <=> mine = {}
                     /\ \A c \in mine :
                           /\ ArticleOf(articles, cards[c]) \in unused
                           /\ own # {} => ArticleOf(articles, cards[c]) \in own
                           /\ \A j \in 1..(i - 1) :
                                 \A b \in CardsOf(cards, selected[j]) : b < c
          /\ \A c \in 1..Len(cards) :
                /\ \E i \in 1..Len(selected) : c \in CardsOf(cards, selected[i])
                /\ Prop(cards[c], "isFallback") = JsBoolean(TRUE)
                      <=> JsString(ArticleOf(articles, cards[c]).source.id)
                            # Prop(cards[c], "sourceId")
                /\ Prop(cards[c], "isFallback") \in {JsBoolean(TRUE), JsUndefined}

\* C19 witness: a response where a source whose own article was taken by a
\* source before it got a substitute, next to a card from an own article
C19_Witness ==
    /\ FeedAssembled
    /\ \E c \in 1..Len(Cards) :
          /\ Prop(Cards[c], "isFallback") = JsBoolean(TRUE)
          /\ \E a \in Range(hist.feed.articles) :
                JsString(a.source.id) = Prop(Cards[c], "sourceId")
    /\ \E c \in 1..Len(Cards) : Prop(Cards[c], "isFallback") = JsUndefined

\* no tier holds an empty card list
NoEmptyList ==
    /\ \A i \in 1..Len(memoryCache) : memoryCache[i].value # JSONstringify(<<>>)
    /\ \A e \in redis : e.value # JSONstringify(<<>>)

\* C20: no cache entry ever holds an empty card list, and a request that
\* produced zero cards stores nothing and leaves the entries of both tiers
\* as they were.
C20_EmptyListNeverCached ==
    /\ NoEmptyList
    /\ [][/\ NoEmptyList'
          /\ (hist'.op = "feed" /\ hist'.feed.provider = "ok"
                 /\ hist'.feed.body = JSONstringify(<<>>))
             => /\ ~hist'.feed.stored
                /\ LiveEntries(memoryCache', redis', now')
                      = LiveEntries(memoryCache, redis, now)]_vars

\* C20 witness: the provider had no usable article, the answer was an empty
\* list and the tiers still hold the lists stored before
C20_Witness ==
    /\ FeedAssembled /\ hist.feed.body = JSONstringify(<<>>)
    /\ Len(memoryCache) > 0 /\ redis # {}

\* C21: a valid request that misses the cache and whose selection is empty
\* is answered with status 200 and the empty list, without a provider call
\* and without a change to the entries of either tier; a valid request is
\* answered with an error only when the provider call failed.
C21_EmptySelectionGivesEmptyList ==
    [][(hist'.op = "feed" /\ hist'.feed.status # 400)
       => /\ (~hist'.feed.hit /\ hist'.feed.selected = <<>>)
               => /\ hist'.feed.status = 200
                  /\ hist'.feed.body = JSONstringify(<<>>)
                  /\ hist'.feed.provider = "none"
                  /\ ~hist'.feed.stored
                  /\ LiveEntries(memoryCache', redis', now')
                        = LiveEntries(memoryCache, redis, now)
          /\ hist'.feed.status # 200 => hist'.feed.provider = "throw"]_vars

\* C21 witness: a request found no source to select while both tiers held
\* entries
C21_Witness ==
    /\ hist.op = "feed" /\ hist.feed.status = 200 /\ ~hist.feed.hit
    /\ hist.feed.selected = <<>> /\ hist.feed.body = "[]"
    /\ Len(sources) = 0
    /\ Len(memoryCache) > 0 /\ redis # {}

\* the coordinate v rounded to 3 decimal places, in thousandths (a tie goes
\* away from zero)
Round3(v) ==
    LET mag == IF v < 0 THEN -v ELSE v
        n == (mag * 1000 + One \div 2) \div One
    IN  IF v < 0 THEN -n ELSE n

\* the point p rounded to 3 decimal places
RoundedPoint(p) == <<Round3(p.x.v), Round3(p.y.v)>>

\* C22: two bias coordinates get the same feed cache key exactly when they
\* round to the same (x, y) at 3 decimal places.
C22_KeyFollowsRounding ==
    keyed.called
    => (keyed.pKey = keyed.qKey <=> RoundedPoint(keyed.p) = RoundedPoint(keyed.q))

\* coordinates with different roundings get different keys (the half of C22
\* that holds)
C22_DifferentRoundingsDifferentKeys ==
    keyed.called
    => (RoundedPoint(keyed.p) # RoundedPoint(keyed.q) => keyed.pKey # keyed.qKey)

\* C23: without an intervening successful connect at most
\* MAX_RECONNECT_ATTEMPTS reconnection attempts are made.
C23_ReconnectBounded == attempts <= MAX_RECONNECT_ATTEMPTS

\* the reconnection attempts are bounded all the same: the client retries
\* while retries <= MAX_RECONNECT_ATTEMPTS, one more after a lost connection,
\* and nothing is scheduled once it has given up
C23_ReconnectBoundedAbove ==
    /\ attempts <= MAX_RECONNECT_ATTEMPTS + 2
    /\ socket.state = "closed" => ~reconnectTimer

\* C24: every awaited call, a durable command of getCache or setCache or
\* the provider request, eventually returns, whether or not it is answered.
C24_EveryCallReturns == (pending.op # "none") ~> (pending.op = "none")

\* the provider request eventually returns (the half of C24 that holds)
C24_ProviderCallReturns == (pending.op = "provider") ~> (pending.op = "none")

\* C25: in every reachable state the fast tier holds at most maxSize
\* entries.
C25_FastTierAtMostMaxSize == Len(memoryCache) <= maxSize

\* C25, amended: the fast tier holds at most maxSize entries, and at most
\* one when the configured size is below one.
C25_FastTierBounded ==
    Len(memoryCache) <= (IF maxSize >= 1 THEN maxSize ELSE 1)

\* C25 witness: a set into a full fast tier removed an entry and left the
\* tier full
C25_Witness ==
    /\ hist.op = "set" /\ hist.ok /\ hist.evicted # {}
    /\ maxSize >= 2 /\ Len(memoryCache) = maxSize

\* C26: a getCache whose durable read threw returns what the fast tier
\* answers and leaves the flag false; one whose key the durable tier does
\* not hold returns what the fast tier answers and leaves the flag as it was.
C26_FastTierAnswersWithoutDurableValue ==
    [][hist'.op = "get"
       => \A m \in {MemoryCacheGet(memoryCache, hist'.key, now)} :
             /\ hist'.out = "throw"
                  => /\ hist'.value = m.value /\ memoryCache' = m.cache
                     /\ ~isRedisConnected'
             /\ (hist'.out = "ok" /\ RedisGet(redis, hist'.key, now) = NullValue)
                  => /\ hist'.value = m.value /\ memoryCache' = m.cache
                     /\ isRedisConnected' = isRedisConnected]_vars

\* C26 witness: the durable tier answered that it does not hold the key, the
\* fast tier held it, and the tier is still taken as healthy
C26_Witness ==
    /\ hist.op = "get" /\ hist.out = "ok" /\ hist.value # NullValue
    /\ RedisGet(redis, hist.key, now) = NullValue
    /\ isRedisConnected

\* C27: a getCache answered by the durable tier returns the durable value
\* and leaves the fast tier exactly as it was: nothing is copied into it and
\* no entry of it is moved or removed.
C27_ReadsDoNotPromote ==
    [][(/\ hist'.op = "get" /\ hist'.out = "ok"
        /\ RedisGet(redis, hist'.key, now) # NullValue)
       => /\ hist'.value = RedisGet(redis, hist'.key, now)
          /\ memoryCache' = memoryCache]_vars

\* C27 witness: the durable tier answered a getCache with a value that the
\* fast tier does not hold under that key
C27_Witness ==
    /\ hist.op = "get" /\ hist.out = "ok" /\ hist.value # NullValue
    /\ hist.value = RedisGet(redis, hist.key, now)
    /\ \A i \in 1..Len(memoryCache) :
          memoryCache[i].key = hist.key => memoryCache[i].value # hist.value

\* C28: whenever the durable command of a cache operation (get, set, delete,
\* clear) throws, the connected flag is false afterwards.
C28_ThrowClearsFlag ==
    [][(hist'.op \in {"get", "set", "delete", "clear"} /\ hist'.out = "throw")
       => ~isRedisConnected']_vars

\* the flag does fall after a durable command of getCache or setCache throws
\* (the part of C28 that holds)
C28_ThrowInGetOrSetClearsFlag ==
    [][(hist'.op \in {"get", "set"} /\ hist'.out = "throw") => ~isRedisConnected']_vars

\* C29: pickSources never returns more than friendlyCount + opposingCount
\* entries, whatever the counts and the path taken.
C29_PickAtMostRequested ==
    picked.called
    => Len(picked.result) <= picked.options.friendlyCount + picked.options.opposingCount

\* on the path through the final slice the result is never longer than
\* requested (the part of C29 that holds)
C29_SliceAtMostRequested ==
    (picked.called /\ ~PickThrew)
    => Len(picked.result) <= picked.options.friendlyCount + picked.options.opposingCount

\* the catalog positions of the active sources that match the category
\* filter of the call
Eligible ==
    {i \in 1..Len(picked.catalog) :
        /\ picked.catalog[i].active
        /\ (picked.options.categoryFilter = ""
             \/ picked.catalog[i].category = picked.options.categoryFilter)}

\* C30: for a target in [-1,1]^2 the search with the default radius drops no
\* active, category-matching source of the catalog: asked for as many
\* sources as the catalog holds, it returns all of them.
C30_RadiusNeverRestrictive ==
    (picked.called /\ ~PickThrew /\ InRange(picked.x) /\ InRange(picked.y))
    => Len(findClosestSources(picked.catalog, picked.x, picked.y, Len(picked.catalog),
                              {}, picked.options.categoryFilter))
         = Cardinality(Eligible)

\* from the centre the search does reach every source of the catalog (the
\* case of C30 that holds)
C30_RadiusCoversFromCentre ==
    (picked.called /\ ~PickThrew /\ picked.x = Num(0) /\ picked.y = Num(0))
    => Len(findClosestSources(picked.catalog, picked.x, picked.y, Len(picked.catalog),
                              {}, picked.options.categoryFilter))
         = Cardinality(Eligible)

(***************************************************************************)
(* The diversity pass                                                      *)
(***************************************************************************)
\* what the call returns with ensureDiversity off: the combined list, which
\* is the input of the diversity pass (the final slice never cuts it)
WithoutDiversity ==
    pickSources(picked.catalog, picked.x, picked.y,
                [picked.options EXCEPT !.ensureDiversity = FALSE])
Count(list, r) == Cardinality({i \in 1..Len(list) : list[i] = r})
IsPermutation(a, b) ==
    /\ Len(a) = Len(b)
    /\ \A r \in Range(a) \cup Range(b) : Count(a, r) = Count(b, r)

\* C31: the diversity pass only re-orders: what pickSources returns with
\* ensureDiversity on is a permutation of what it returns with it off (no
\* source dropped, added or duplicated).
C31_DiversityIsPermutation ==
    (picked.called /\ ~PickThrew /\ picked.options.ensureDiversity)
    => IsPermutation(picked.result, WithoutDiversity)

\* the set of ids is the same with the pass on or off (the part of C31 that
\* holds), and on a catalog of pairwise distinct ids the pass is a permutation
C31_DiversityKeepsIds ==
    (picked.called /\ ~PickThrew /\ picked.options.ensureDiversity)
    => /\ ResultIds(picked.result) = ResultIds(WithoutDiversity)
       /\ UniqueIds(picked.catalog) => IsPermutation(picked.result, WithoutDiversity)

(***************************************************************************)
(* Properties of the fast tier (checked under SpecExpiry)                  *)
(***************************************************************************)
\* the expiry time of the entry has passed at time t
Past(item, t) == item.expires # NoExpiry /\ item.expires < t

\* the fast tier's entry of the key that the step looks up
LookedUp == memoryCache[IndexOf(memoryCache, hist'.key)]

\* C32: a lookup of an entry whose expiry time has passed returns absent
\* and removes the entry; a sweep removes every entry whose expiry time has
\* passed and leaves every other entry (value, expiry, order) as it was.
C32_ExpiredNeverReturned ==
    [][/\ (hist'.op = "get" /\ hist'.key \in MemoryKeys(memoryCache)
             /\ Past(LookedUp, now))
          => (hist'.value = NullValue /\ hist'.key \notin MemoryKeys(memoryCache'))
       /\ hist'.op = "sweep"
          => memoryCache' = SelectSeq(memoryCache, LAMBDA e : ~Past(e, now))]_vars

\* the lookup half of C32 holds with "passed" read strictly (expires < now),
\* and the sweep removes the entries with expires <= now and leaves the
\* others as they were
C32_LookupStrictSweepInclusive ==
    [][/\ (hist'.op = "get" /\ hist'.key \in MemoryKeys(memoryCache)
             /\ Past(LookedUp, now))
          => (hist'.value = NullValue /\ hist'.key \notin MemoryKeys(memoryCache'))
       /\ hist'.op = "sweep"
          => memoryCache' = SelectSeq(memoryCache, LAMBDA e : ~Past(e, now + 1))]_vars

\* at the instant an entry expires a lookup still returns it (the entries
\* the sweep removes are not all absent on lookup)
C32_SweptEntriesAbsentOnLookup ==
    [][(hist'.op = "get" /\ hist'.key \in MemoryKeys(memoryCache)
          /\ Past(LookedUp, now + 1))
       => hist'.value = NullValue]_vars

\* C33: a set of a key the fast tier already holds removes no other key,
\* also when the tier is at capacity.
C33_OverwriteKeepsOtherKeys ==
    [][(hist'.op = "set" /\ hist'.ok /\ hist'.key \in MemoryKeys(memoryCache))
       => MemoryKeys(memoryCache) \subseteq MemoryKeys(memoryCache')]_vars

\* below capacity the overwrite removes nothing, and at capacity it removes
\* at most the oldest entry (the part of C33 that holds)
C33_OverwriteBelowCapacity ==
    [][(hist'.op = "set" /\ hist'.ok /\ hist'.key \in MemoryKeys(memoryCache))
       => /\ Len(memoryCache) < maxSize
             => MemoryKeys(memoryCache) \subseteq MemoryKeys(memoryCache')
          /\ MemoryKeys(memoryCache) \ MemoryKeys(memoryCache') \subseteq {memoryCache[1].key}]_vars

(***************************************************************************)
(* Properties of the two tiers across failover (checked under              *)
(* SpecReconnect)                                                          *)
(***************************************************************************)
\* the call completed last is a getCache of the key of the last successful
\* setCache, made before that entry expires, no delete or clear in between
GetOfLatestWrite ==
    /\ hist.op = "get" /\ hist.setLive /\ hist.key = hist.setKey
    /\ now - hist.setAt < hist.setTtl

\* C34: after a successful setCache(k, v2), every getCache(k) made before
\* the expiry, with no set, delete or clear of k in between, returns v2,
\* whatever failures, unhealthy periods and reconnects lie in between.
C34_ReadYourLatestWrite == GetOfLatestWrite => hist.value = hist.setValue

\* a getCache of the latest write that the fast tier answers (the durable
\* tier unhealthy or failing) returns that write (the part of C34 that holds)
C34_FastTierReturnsLatestWrite ==
    (GetOfLatestWrite /\ hist.out # "ok") => hist.value = hist.setValue

\* C35: after deleteCache(k) has returned, every getCache(k) returns absent
\* until the next setCache(k), whatever failures, unhealthy periods and
\* reconnects lie in between.
C35_DeletedStaysAbsent ==
    (hist.op = "get" /\ hist.key = hist.deleted) => hist.value = NullValue

\* a getCache of a deleted key that the fast tier answers returns absent
\* (the part of C35 that holds)
C35_DeletedAbsentInFastTier ==
    (hist.op = "get" /\ hist.key = hist.deleted /\ hist.out # "ok")
    => hist.value = NullValue

(***************************************************************************)
(* Properties of the health flag (checked under SpecRecover)               *)
(***************************************************************************)
\* a getCache or setCache has just caught an exception of its durable
\* command and put the flag down
FlagDownByException ==
    /\ hist.op \in {"get", "set"} /\ hist.out = "throw" /\ ~isRedisConnected

\* C36: once an exception of a durable command has set the flag to false,
\* the flag becomes true again while the connection is still open (or the
\* connection breaks): the tier is not bypassed forever.
C36_FlagRecovers ==
    FlagDownByException ~> (isRedisConnected \/ socket.state # "ready")

\* after a lost connection the flag does come back with the reconnect (the
\* recovery the code has)
C36_FlagRecoversAfterReconnect ==
    (socket.state = "waiting") ~> isRedisConnected

(***************************************************************************)
(* Properties of the provider's rate limit (checked under SpecRate)        *)
(***************************************************************************)
\* C37: any two requests to the article provider are started at least
\* RATE_LIMIT_DELAY apart, however the concurrent calls interleave.
C37_RequestsSpacedByDelay ==
    \A i, j \in 1..Len(sentAt) :
        i < j => sentAt[j].at - sentAt[i].at >= RATE_LIMIT_DELAY

\* a request whose call waited alone, or did not wait, starts at least
\* RATE_LIMIT_DELAY after every request started before it (the part of C37
\* that holds: calls that do not overlap in enforceRateLimit)
C37_SequentialRequestsSpaced ==
    \A i, j \in 1..Len(sentAt) :
        (i < j /\ ~sentAt[j].overlapped)
        => sentAt[j].at - sentAt[i].at >= RATE_LIMIT_DELAY
====
